---- MODULE Spec2Model ----
(***************************************************************************)
(* Credential and session management of the reminder application:          *)
(* auth/models.py (User), auth/database.py (the SQLite and PostgreSQL      *)
(* stores), auth/routes.py (the request handlers), auth/middleware.py      *)
(* (session resolution, logout) and app.py (the API's own session lookup). *)
(*                                                                         *)
(* Text values (emails, user names, passwords) are sequences of one-       *)
(* character strings.  Time is a count of hours.  Tokens are positive      *)
(* integers; a NULL column is NoToken (tokens) or NoTime (timestamps).     *)
(***************************************************************************)
EXTENDS Integers, Sequences, FiniteSets, TLC

VARIABLES
    backend,    \* "sqlite" | "postgres": Config.use_postgres(), fixed at start
    users,      \* rows of table users
    sessions,   \* rows of table sessions
    userSeq,    \* last value of users.id's sequence
    sessSeq,    \* last value of sessions.id's sequence
    now,        \* the clock, datetime.now(timezone.utc)
    issued,     \* tokens already produced or handed to the store
    vlog,       \* history: user id -> verification token stored at creation
    outbox,     \* emails handed to the SMTP server
    last,       \* the last request and its response
    inflight,   \* the requests being served concurrently, each at its step
    messages,   \* rows of table messages
    idSeq,      \* how many message ids the application has generated
    saltSeq     \* how many salts bcrypt.gensalt has drawn

vars == <<backend, users, sessions, userSeq, sessSeq, now, issued, vlog, outbox, last,
          inflight, messages, idSeq, saltSeq>>

(***************************************************************************)
(* Bounds of the model.                                                    *)
(***************************************************************************)
MaxUsers == 2
MaxSessions == 2
MaxTime == 1
\* Draws of bcrypt.gensalt.
MaxSalts == 4
MaxTok == 2

Tokens == 1..MaxTok
Times == 0..MaxTime

\* Python's None in a token column / a timestamp column.
NoToken == 0
NoTime == -1

\* timedelta(hours=1), timedelta(days=1), timedelta(days=30) in hours.
HoursPerDay == 24
ResetHours == 1
SessionDays == 1
RememberDays == 30

(***************************************************************************)
(* Text.                                                                   *)
(***************************************************************************)
\* One character of a text is a string: the character itself where TLA+ has
\* a literal for it (printable ASCII, tab, newline, form feed, carriage
\* return), and "U+" followed by its decimal code point otherwise, so that
\* Char(233) = "U+233" stands for U+00E9.  The tables below are those of the
\* Unicode database the interpreter carries (14.0.0).
Char(cp) ==
    LET Printable == <<
      " ", "!", "\"", "#", "$", "%", "&", "'", "(", ")", "*", "+", ",", "-", ".", "/",
      "0", "1", "2", "3", "4", "5", "6", "7", "8", "9", ":", ";", "<", "=", ">", "?",
      "@", "A", "B", "C", "D", "E", "F", "G", "H", "I", "J", "K", "L", "M", "N", "O",
      "P", "Q", "R", "S", "T", "U", "V", "W", "X", "Y", "Z", "[", "\\", "]", "^", "_",
      "U+96", "a", "b", "c", "d", "e", "f", "g", "h", "i", "j", "k", "l", "m", "n", "o",
      "p", "q", "r", "s", "t", "u", "v", "w", "x", "y", "z", "{", "|", "}", "~">>
    IN  IF cp \in 32..126 THEN Printable[cp - 31]
        ELSE CASE cp = 9 -> "\t" [] cp = 10 -> "\n" [] cp = 12 -> "\f" [] cp = 13 -> "\r"
               [] OTHER -> "U+" \o ToString(cp)

UpperCase == <<"A","B","C","D","E","F","G","H","I","J","K","L","M",
               "N","O","P","Q","R","S","T","U","V","W","X","Y","Z">>
LowerCase == <<"a","b","c","d","e","f","g","h","i","j","k","l","m",
               "n","o","p","q","r","s","t","u","v","w","x","y","z">>
Letters == {UpperCase[i] : i \in 1..26} \cup {LowerCase[i] : i \in 1..26}
\* [0-9] of the email pattern.
AsciiDigits == {"0","1","2","3","4","5","6","7","8","9"}
\* The characters below U+0080.
Ascii == {Char(cp) : cp \in 0..127}

\* \d of a str pattern: every character of category Nd.  The decimal digits
\* come in runs of ten; each run is named by the code point of its zero.
Digits ==
    {Char(z + k) : k \in 0..9, z \in {
        48, 1632, 1776, 1984, 2406, 2534, 2662, 2790, 2918, 3046, 3174, 3302, 3430, 3558,
        3664, 3792, 3872, 4160, 4240, 6112, 6160, 6470, 6608, 6784, 6800, 6992, 7088, 7232,
        7248, 42528, 43216, 43264, 43472, 43504, 43600, 44016, 65296, 66720, 68912, 69734,
        69872, 69942, 70096, 70384, 70736, 70864, 71248, 71360, 71472, 71904, 72016, 72784,
        73040, 73120, 92768, 92864, 93008, 120782, 120792, 120802, 120812, 120822, 123200,
        123632, 125264, 130032}}

\* The characters str.strip() removes (str.isspace).
Whitespace ==
    {Char(cp) : cp \in {
        9, 10, 11, 12, 13, 28, 29, 30, 31, 32, 133, 160, 5760, 8192, 8193, 8194, 8195, 8196,
        8197, 8198, 8199, 8200, 8201, 8202, 8232, 8233, 8239, 8287, 12288}}

\* str.lower() character by character: <<first, last, step, offset>> stands
\* for the capitals first, first + step, .. last, each lowered to the
\* character offset code points away.  U+0130 and U+03A3 are lowered by
\* Lower itself.
LowerPairs ==
    UNION {{<<Char(c), Char(c + r[4])>> : c \in {x \in r[1]..r[2] : (x - r[1]) % r[3] = 0}} :
           r \in {
            <<65, 90, 1, 32>>, <<192, 214, 1, 32>>, <<216, 222, 1, 32>>, <<256, 302, 2, 1>>,
            <<306, 310, 2, 1>>, <<313, 327, 2, 1>>, <<330, 374, 2, 1>>, <<376, 376, 1,
            -121>>, <<377, 381, 2, 1>>, <<385, 385, 1, 210>>, <<386, 388, 2, 1>>, <<390,
            390, 1, 206>>, <<391, 391, 1, 1>>, <<393, 394, 1, 205>>, <<395, 395, 1, 1>>,
            <<398, 398, 1, 79>>, <<399, 399, 1, 202>>, <<400, 400, 1, 203>>, <<401, 401, 1,
            1>>, <<403, 403, 1, 205>>, <<404, 404, 1, 207>>, <<406, 406, 1, 211>>, <<407,
            407, 1, 209>>, <<408, 408, 1, 1>>, <<412, 412, 1, 211>>, <<413, 413, 1, 213>>,
            <<415, 415, 1, 214>>, <<416, 420, 2, 1>>, <<422, 422, 1, 218>>, <<423, 423, 1,
            1>>, <<425, 425, 1, 218>>, <<428, 428, 1, 1>>, <<430, 430, 1, 218>>, <<431, 431,
            1, 1>>, <<433, 434, 1, 217>>, <<435, 437, 2, 1>>, <<439, 439, 1, 219>>, <<440,
            440, 1, 1>>, <<444, 444, 1, 1>>, <<452, 452, 1, 2>>, <<453, 453, 1, 1>>, <<455,
            455, 1, 2>>, <<456, 456, 1, 1>>, <<458, 458, 1, 2>>, <<459, 475, 2, 1>>, <<478,
            494, 2, 1>>, <<497, 497, 1, 2>>, <<498, 500, 2, 1>>, <<502, 502, 1, -97>>,
            <<503, 503, 1, -56>>, <<504, 542, 2, 1>>, <<544, 544, 1, -130>>, <<546, 562, 2,
            1>>, <<570, 570, 1, 10795>>, <<571, 571, 1, 1>>, <<573, 573, 1, -163>>, <<574,
            574, 1, 10792>>, <<577, 577, 1, 1>>, <<579, 579, 1, -195>>, <<580, 580, 1, 69>>,
            <<581, 581, 1, 71>>, <<582, 590, 2, 1>>, <<880, 882, 2, 1>>, <<886, 886, 1, 1>>,
            <<895, 895, 1, 116>>, <<902, 902, 1, 38>>, <<904, 906, 1, 37>>, <<908, 908, 1,
            64>>, <<910, 911, 1, 63>>, <<913, 929, 1, 32>>, <<932, 939, 1, 32>>, <<975, 975,
            1, 8>>, <<984, 1006, 2, 1>>, <<1012, 1012, 1, -60>>, <<1015, 1015, 1, 1>>,
            <<1017, 1017, 1, -7>>, <<1018, 1018, 1, 1>>, <<1021, 1023, 1, -130>>, <<1024,
            1039, 1, 80>>, <<1040, 1071, 1, 32>>, <<1120, 1152, 2, 1>>, <<1162, 1214, 2,
            1>>, <<1216, 1216, 1, 15>>, <<1217, 1229, 2, 1>>, <<1232, 1326, 2, 1>>, <<1329,
            1366, 1, 48>>, <<4256, 4293, 1, 7264>>, <<4295, 4295, 1, 7264>>, <<4301, 4301,
            1, 7264>>, <<5024, 5103, 1, 38864>>, <<5104, 5109, 1, 8>>, <<7312, 7354, 1,
            -3008>>, <<7357, 7359, 1, -3008>>, <<7680, 7828, 2, 1>>, <<7838, 7838, 1,
            -7615>>, <<7840, 7934, 2, 1>>, <<7944, 7951, 1, -8>>, <<7960, 7965, 1, -8>>,
            <<7976, 7983, 1, -8>>, <<7992, 7999, 1, -8>>, <<8008, 8013, 1, -8>>, <<8025,
            8031, 2, -8>>, <<8040, 8047, 1, -8>>, <<8072, 8079, 1, -8>>, <<8088, 8095, 1,
            -8>>, <<8104, 8111, 1, -8>>, <<8120, 8121, 1, -8>>, <<8122, 8123, 1, -74>>,
            <<8124, 8124, 1, -9>>, <<8136, 8139, 1, -86>>, <<8140, 8140, 1, -9>>, <<8152,
            8153, 1, -8>>, <<8154, 8155, 1, -100>>, <<8168, 8169, 1, -8>>, <<8170, 8171, 1,
            -112>>, <<8172, 8172, 1, -7>>, <<8184, 8185, 1, -128>>, <<8186, 8187, 1, -126>>,
            <<8188, 8188, 1, -9>>, <<8486, 8486, 1, -7517>>, <<8490, 8490, 1, -8383>>,
            <<8491, 8491, 1, -8262>>, <<8498, 8498, 1, 28>>, <<8544, 8559, 1, 16>>, <<8579,
            8579, 1, 1>>, <<9398, 9423, 1, 26>>, <<11264, 11311, 1, 48>>, <<11360, 11360, 1,
            1>>, <<11362, 11362, 1, -10743>>, <<11363, 11363, 1, -3814>>, <<11364, 11364, 1,
            -10727>>, <<11367, 11371, 2, 1>>, <<11373, 11373, 1, -10780>>, <<11374, 11374,
            1, -10749>>, <<11375, 11375, 1, -10783>>, <<11376, 11376, 1, -10782>>, <<11378,
            11378, 1, 1>>, <<11381, 11381, 1, 1>>, <<11390, 11391, 1, -10815>>, <<11392,
            11490, 2, 1>>, <<11499, 11501, 2, 1>>, <<11506, 11506, 1, 1>>, <<42560, 42604,
            2, 1>>, <<42624, 42650, 2, 1>>, <<42786, 42798, 2, 1>>, <<42802, 42862, 2, 1>>,
            <<42873, 42875, 2, 1>>, <<42877, 42877, 1, -35332>>, <<42878, 42886, 2, 1>>,
            <<42891, 42891, 1, 1>>, <<42893, 42893, 1, -42280>>, <<42896, 42898, 2, 1>>,
            <<42902, 42920, 2, 1>>, <<42922, 42922, 1, -42308>>, <<42923, 42923, 1,
            -42319>>, <<42924, 42924, 1, -42315>>, <<42925, 42925, 1, -42305>>, <<42926,
            42926, 1, -42308>>, <<42928, 42928, 1, -42258>>, <<42929, 42929, 1, -42282>>,
            <<42930, 42930, 1, -42261>>, <<42931, 42931, 1, 928>>, <<42932, 42946, 2, 1>>,
            <<42948, 42948, 1, -48>>, <<42949, 42949, 1, -42307>>, <<42950, 42950, 1,
            -35384>>, <<42951, 42953, 2, 1>>, <<42960, 42960, 1, 1>>, <<42966, 42968, 2,
            1>>, <<42997, 42997, 1, 1>>, <<65313, 65338, 1, 32>>, <<66560, 66599, 1, 40>>,
            <<66736, 66771, 1, 40>>, <<66928, 66938, 1, 39>>, <<66940, 66954, 1, 39>>,
            <<66956, 66962, 1, 39>>, <<66964, 66965, 1, 39>>, <<68736, 68786, 1, 64>>,
            <<71840, 71871, 1, 32>>, <<93760, 93791, 1, 32>>, <<125184, 125217, 1, 34>>}}

\* The characters the final-sigma rule of str.lower() steps over
\* (case-ignorable), and the cased characters among the others, as ranges.
CaseIgnorable ==
    {Char(c) : c \in UNION {r[1]..r[2] : r \in {
        <<39, 39>>, <<46, 46>>, <<58, 58>>, <<94, 94>>, <<96, 96>>, <<168, 168>>, <<173,
        173>>, <<175, 175>>, <<180, 180>>, <<183, 184>>, <<688, 879>>, <<884, 885>>, <<890,
        890>>, <<900, 901>>, <<903, 903>>, <<1155, 1161>>, <<1369, 1369>>, <<1375, 1375>>,
        <<1425, 1469>>, <<1471, 1471>>, <<1473, 1474>>, <<1476, 1477>>, <<1479, 1479>>,
        <<1524, 1524>>, <<1536, 1541>>, <<1552, 1562>>, <<1564, 1564>>, <<1600, 1600>>,
        <<1611, 1631>>, <<1648, 1648>>, <<1750, 1757>>, <<1759, 1768>>, <<1770, 1773>>,
        <<1807, 1807>>, <<1809, 1809>>, <<1840, 1866>>, <<1958, 1968>>, <<2027, 2037>>,
        <<2042, 2042>>, <<2045, 2045>>, <<2070, 2093>>, <<2137, 2139>>, <<2184, 2184>>,
        <<2192, 2193>>, <<2200, 2207>>, <<2249, 2306>>, <<2362, 2362>>, <<2364, 2364>>,
        <<2369, 2376>>, <<2381, 2381>>, <<2385, 2391>>, <<2402, 2403>>, <<2417, 2417>>,
        <<2433, 2433>>, <<2492, 2492>>, <<2497, 2500>>, <<2509, 2509>>, <<2530, 2531>>,
        <<2558, 2558>>, <<2561, 2562>>, <<2620, 2620>>, <<2625, 2626>>, <<2631, 2632>>,
        <<2635, 2637>>, <<2641, 2641>>, <<2672, 2673>>, <<2677, 2677>>, <<2689, 2690>>,
        <<2748, 2748>>, <<2753, 2757>>, <<2759, 2760>>, <<2765, 2765>>, <<2786, 2787>>,
        <<2810, 2815>>, <<2817, 2817>>, <<2876, 2876>>, <<2879, 2879>>, <<2881, 2884>>,
        <<2893, 2893>>, <<2901, 2902>>, <<2914, 2915>>, <<2946, 2946>>, <<3008, 3008>>,
        <<3021, 3021>>, <<3072, 3072>>, <<3076, 3076>>, <<3132, 3132>>, <<3134, 3136>>,
        <<3142, 3144>>, <<3146, 3149>>, <<3157, 3158>>, <<3170, 3171>>, <<3201, 3201>>,
        <<3260, 3260>>, <<3263, 3263>>, <<3270, 3270>>, <<3276, 3277>>, <<3298, 3299>>,
        <<3328, 3329>>, <<3387, 3388>>, <<3393, 3396>>, <<3405, 3405>>, <<3426, 3427>>,
        <<3457, 3457>>, <<3530, 3530>>, <<3538, 3540>>, <<3542, 3542>>, <<3633, 3633>>,
        <<3636, 3642>>, <<3654, 3662>>, <<3761, 3761>>, <<3764, 3772>>, <<3782, 3782>>,
        <<3784, 3789>>, <<3864, 3865>>, <<3893, 3893>>, <<3895, 3895>>, <<3897, 3897>>,
        <<3953, 3966>>, <<3968, 3972>>, <<3974, 3975>>, <<3981, 3991>>, <<3993, 4028>>,
        <<4038, 4038>>, <<4141, 4144>>, <<4146, 4151>>, <<4153, 4154>>, <<4157, 4158>>,
        <<4184, 4185>>, <<4190, 4192>>, <<4209, 4212>>, <<4226, 4226>>, <<4229, 4230>>,
        <<4237, 4237>>, <<4253, 4253>>, <<4348, 4348>>, <<4957, 4959>>, <<5906, 5908>>,
        <<5938, 5939>>, <<5970, 5971>>, <<6002, 6003>>, <<6068, 6069>>, <<6071, 6077>>,
        <<6086, 6086>>, <<6089, 6099>>, <<6103, 6103>>, <<6109, 6109>>, <<6155, 6159>>,
        <<6211, 6211>>, <<6277, 6278>>, <<6313, 6313>>, <<6432, 6434>>, <<6439, 6440>>,
        <<6450, 6450>>, <<6457, 6459>>, <<6679, 6680>>, <<6683, 6683>>, <<6742, 6742>>,
        <<6744, 6750>>, <<6752, 6752>>, <<6754, 6754>>, <<6757, 6764>>, <<6771, 6780>>,
        <<6783, 6783>>, <<6823, 6823>>, <<6832, 6862>>, <<6912, 6915>>, <<6964, 6964>>,
        <<6966, 6970>>, <<6972, 6972>>, <<6978, 6978>>, <<7019, 7027>>, <<7040, 7041>>,
        <<7074, 7077>>, <<7080, 7081>>, <<7083, 7085>>, <<7142, 7142>>, <<7144, 7145>>,
        <<7149, 7149>>, <<7151, 7153>>, <<7212, 7219>>, <<7222, 7223>>, <<7288, 7293>>,
        <<7376, 7378>>, <<7380, 7392>>, <<7394, 7400>>, <<7405, 7405>>, <<7412, 7412>>,
        <<7416, 7417>>, <<7468, 7530>>, <<7544, 7544>>, <<7579, 7679>>, <<8125, 8125>>,
        <<8127, 8129>>, <<8141, 8143>>, <<8157, 8159>>, <<8173, 8175>>, <<8189, 8190>>,
        <<8203, 8207>>, <<8216, 8217>>, <<8228, 8228>>, <<8231, 8231>>, <<8234, 8238>>,
        <<8288, 8292>>, <<8294, 8303>>, <<8305, 8305>>, <<8319, 8319>>, <<8336, 8348>>,
        <<8400, 8432>>, <<11388, 11389>>, <<11503, 11505>>, <<11631, 11631>>, <<11647,
        11647>>, <<11744, 11775>>, <<11823, 11823>>, <<12293, 12293>>, <<12330, 12333>>,
        <<12337, 12341>>, <<12347, 12347>>, <<12441, 12446>>, <<12540, 12542>>, <<40981,
        40981>>, <<42232, 42237>>, <<42508, 42508>>, <<42607, 42610>>, <<42612, 42621>>,
        <<42623, 42623>>, <<42652, 42655>>, <<42736, 42737>>, <<42752, 42785>>, <<42864,
        42864>>, <<42888, 42890>>, <<42994, 42996>>, <<43000, 43001>>, <<43010, 43010>>,
        <<43014, 43014>>, <<43019, 43019>>, <<43045, 43046>>, <<43052, 43052>>, <<43204,
        43205>>, <<43232, 43249>>, <<43263, 43263>>, <<43302, 43309>>, <<43335, 43345>>,
        <<43392, 43394>>, <<43443, 43443>>, <<43446, 43449>>, <<43452, 43453>>, <<43471,
        43471>>, <<43493, 43494>>, <<43561, 43566>>, <<43569, 43570>>, <<43573, 43574>>,
        <<43587, 43587>>, <<43596, 43596>>, <<43632, 43632>>, <<43644, 43644>>, <<43696,
        43696>>, <<43698, 43700>>, <<43703, 43704>>, <<43710, 43711>>, <<43713, 43713>>,
        <<43741, 43741>>, <<43756, 43757>>, <<43763, 43764>>, <<43766, 43766>>, <<43867,
        43871>>, <<43881, 43883>>, <<44005, 44005>>, <<44008, 44008>>, <<44013, 44013>>,
        <<64286, 64286>>, <<64434, 64450>>, <<65024, 65039>>, <<65043, 65043>>, <<65056,
        65071>>, <<65106, 65106>>, <<65109, 65109>>, <<65279, 65279>>, <<65287, 65287>>,
        <<65294, 65294>>, <<65306, 65306>>, <<65342, 65342>>, <<65344, 65344>>, <<65392,
        65392>>, <<65438, 65439>>, <<65507, 65507>>, <<65529, 65531>>, <<66045, 66045>>,
        <<66272, 66272>>, <<66422, 66426>>, <<67456, 67461>>, <<67463, 67504>>, <<67506,
        67514>>, <<68097, 68099>>, <<68101, 68102>>, <<68108, 68111>>, <<68152, 68154>>,
        <<68159, 68159>>, <<68325, 68326>>, <<68900, 68903>>, <<69291, 69292>>, <<69446,
        69456>>, <<69506, 69509>>, <<69633, 69633>>, <<69688, 69702>>, <<69744, 69744>>,
        <<69747, 69748>>, <<69759, 69761>>, <<69811, 69814>>, <<69817, 69818>>, <<69821,
        69821>>, <<69826, 69826>>, <<69837, 69837>>, <<69888, 69890>>, <<69927, 69931>>,
        <<69933, 69940>>, <<70003, 70003>>, <<70016, 70017>>, <<70070, 70078>>, <<70089,
        70092>>, <<70095, 70095>>, <<70191, 70193>>, <<70196, 70196>>, <<70198, 70199>>,
        <<70206, 70206>>, <<70367, 70367>>, <<70371, 70378>>, <<70400, 70401>>, <<70459,
        70460>>, <<70464, 70464>>, <<70502, 70508>>, <<70512, 70516>>, <<70712, 70719>>,
        <<70722, 70724>>, <<70726, 70726>>, <<70750, 70750>>, <<70835, 70840>>, <<70842,
        70842>>, <<70847, 70848>>, <<70850, 70851>>, <<71090, 71093>>, <<71100, 71101>>,
        <<71103, 71104>>, <<71132, 71133>>, <<71219, 71226>>, <<71229, 71229>>, <<71231,
        71232>>, <<71339, 71339>>, <<71341, 71341>>, <<71344, 71349>>, <<71351, 71351>>,
        <<71453, 71455>>, <<71458, 71461>>, <<71463, 71467>>, <<71727, 71735>>, <<71737,
        71738>>, <<71995, 71996>>, <<71998, 71998>>, <<72003, 72003>>, <<72148, 72151>>,
        <<72154, 72155>>, <<72160, 72160>>, <<72193, 72202>>, <<72243, 72248>>, <<72251,
        72254>>, <<72263, 72263>>, <<72273, 72278>>, <<72281, 72283>>, <<72330, 72342>>,
        <<72344, 72345>>, <<72752, 72758>>, <<72760, 72765>>, <<72767, 72767>>, <<72850,
        72871>>, <<72874, 72880>>, <<72882, 72883>>, <<72885, 72886>>, <<73009, 73014>>,
        <<73018, 73018>>, <<73020, 73021>>, <<73023, 73029>>, <<73031, 73031>>, <<73104,
        73105>>, <<73109, 73109>>, <<73111, 73111>>, <<73459, 73460>>, <<78896, 78904>>,
        <<92912, 92916>>, <<92976, 92982>>, <<92992, 92995>>, <<94031, 94031>>, <<94095,
        94111>>, <<94176, 94177>>, <<94179, 94180>>, <<110576, 110579>>, <<110581, 110587>>,
        <<110589, 110590>>, <<113821, 113822>>, <<113824, 113827>>, <<118528, 118573>>,
        <<118576, 118598>>, <<119143, 119145>>, <<119155, 119170>>, <<119173, 119179>>,
        <<119210, 119213>>, <<119362, 119364>>, <<121344, 121398>>, <<121403, 121452>>,
        <<121461, 121461>>, <<121476, 121476>>, <<121499, 121503>>, <<121505, 121519>>,
        <<122880, 122886>>, <<122888, 122904>>, <<122907, 122913>>, <<122915, 122916>>,
        <<122918, 122922>>, <<123184, 123197>>, <<123566, 123566>>, <<123628, 123631>>,
        <<125136, 125142>>, <<125252, 125259>>, <<127995, 127999>>, <<917505, 917505>>,
        <<917536, 917631>>, <<917760, 917999>>}}}
Cased ==
    {Char(c) : c \in UNION {r[1]..r[2] : r \in {
        <<65, 90>>, <<97, 122>>, <<170, 170>>, <<181, 181>>, <<186, 186>>, <<192, 214>>,
        <<216, 246>>, <<248, 442>>, <<444, 447>>, <<452, 659>>, <<661, 687>>, <<880, 883>>,
        <<886, 887>>, <<891, 893>>, <<895, 895>>, <<902, 902>>, <<904, 906>>, <<908, 908>>,
        <<910, 929>>, <<931, 1013>>, <<1015, 1153>>, <<1162, 1327>>, <<1329, 1366>>, <<1376,
        1416>>, <<4256, 4293>>, <<4295, 4295>>, <<4301, 4301>>, <<4304, 4346>>, <<4349,
        4351>>, <<5024, 5109>>, <<5112, 5117>>, <<7296, 7304>>, <<7312, 7354>>, <<7357,
        7359>>, <<7424, 7467>>, <<7531, 7543>>, <<7545, 7578>>, <<7680, 7957>>, <<7960,
        7965>>, <<7968, 8005>>, <<8008, 8013>>, <<8016, 8023>>, <<8025, 8025>>, <<8027,
        8027>>, <<8029, 8029>>, <<8031, 8061>>, <<8064, 8116>>, <<8118, 8124>>, <<8126,
        8126>>, <<8130, 8132>>, <<8134, 8140>>, <<8144, 8147>>, <<8150, 8155>>, <<8160,
        8172>>, <<8178, 8180>>, <<8182, 8188>>, <<8450, 8450>>, <<8455, 8455>>, <<8458,
        8467>>, <<8469, 8469>>, <<8473, 8477>>, <<8484, 8484>>, <<8486, 8486>>, <<8488,
        8488>>, <<8490, 8493>>, <<8495, 8500>>, <<8505, 8505>>, <<8508, 8511>>, <<8517,
        8521>>, <<8526, 8526>>, <<8544, 8575>>, <<8579, 8580>>, <<9398, 9449>>, <<11264,
        11387>>, <<11390, 11492>>, <<11499, 11502>>, <<11506, 11507>>, <<11520, 11557>>,
        <<11559, 11559>>, <<11565, 11565>>, <<42560, 42605>>, <<42624, 42651>>, <<42786,
        42863>>, <<42865, 42887>>, <<42891, 42894>>, <<42896, 42954>>, <<42960, 42961>>,
        <<42963, 42963>>, <<42965, 42969>>, <<42997, 42998>>, <<43002, 43002>>, <<43824,
        43866>>, <<43872, 43880>>, <<43888, 43967>>, <<64256, 64262>>, <<64275, 64279>>,
        <<65313, 65338>>, <<65345, 65370>>, <<66560, 66639>>, <<66736, 66771>>, <<66776,
        66811>>, <<66928, 66938>>, <<66940, 66954>>, <<66956, 66962>>, <<66964, 66965>>,
        <<66967, 66977>>, <<66979, 66993>>, <<66995, 67001>>, <<67003, 67004>>, <<68736,
        68786>>, <<68800, 68850>>, <<71840, 71903>>, <<93760, 93823>>, <<119808, 119892>>,
        <<119894, 119964>>, <<119966, 119967>>, <<119970, 119970>>, <<119973, 119974>>,
        <<119977, 119980>>, <<119982, 119993>>, <<119995, 119995>>, <<119997, 120003>>,
        <<120005, 120069>>, <<120071, 120074>>, <<120077, 120084>>, <<120086, 120092>>,
        <<120094, 120121>>, <<120123, 120126>>, <<120128, 120132>>, <<120134, 120134>>,
        <<120138, 120144>>, <<120146, 120485>>, <<120488, 120512>>, <<120514, 120538>>,
        <<120540, 120570>>, <<120572, 120596>>, <<120598, 120628>>, <<120630, 120654>>,
        <<120656, 120686>>, <<120688, 120712>>, <<120714, 120744>>, <<120746, 120770>>,
        <<120772, 120779>>, <<122624, 122633>>, <<122635, 122654>>, <<125184, 125251>>,
        <<127280, 127305>>, <<127312, 127337>>, <<127344, 127369>>}}}

\* str.lower() on one character that lowers to one character.
LowerChar(c) ==
    IF \E i \in 1..26 : UpperCase[i] = c
    THEN LowerCase[CHOOSE i \in 1..26 : UpperCase[i] = c]
    ELSE IF c \in Ascii \/ ~ \E p \in LowerPairs : p[1] = c THEN c
    ELSE (CHOOSE p \in LowerPairs : p[1] = c)[2]

\* str.lower(): U+0130 lowers to i followed by U+0307; U+03A3 lowers to the
\* final sigma U+03C2 when the nearest character before it that is not
\* case-ignorable is cased and the nearest such character after it, if any,
\* is not, and to U+03C3 otherwise.
Lower(s) ==
    LET FinalSigma(i) ==
            LET before == {j \in 1..(i - 1) : s[j] \notin CaseIgnorable}
                after == {j \in (i + 1)..Len(s) : s[j] \notin CaseIgnorable}
            IN  /\ before # {}
                /\ s[CHOOSE j \in before : \A k \in before : k <= j] \in Cased
                /\ \/ after = {}
                   \/ s[CHOOSE j \in after : \A k \in after : j <= k] \notin Cased
        LowerAt(i) ==
            IF s[i] \in Ascii THEN <<LowerChar(s[i])>>
            ELSE IF s[i] = Char(931)
            THEN IF FinalSigma(i) THEN <<Char(962)>> ELSE <<Char(963)>>
            ELSE IF s[i] = Char(304) THEN <<"i", Char(775)>>
            ELSE <<LowerChar(s[i])>>
        RECURSIVE LowerFrom(_)
        LowerFrom(i) == IF i > Len(s) THEN <<>> ELSE LowerAt(i) \o LowerFrom(i + 1)
    IN  LowerFrom(1)

\* str.strip(): leading and trailing whitespace removed.
Strip(s) ==
    LET keep == {i \in 1..Len(s) : s[i] \notin Whitespace}
    IN  IF keep = {} THEN <<>>
        ELSE LET lo == CHOOSE i \in keep : \A j \in keep : i <= j
                 hi == CHOOSE i \in keep : \A j \in keep : j <= i
             IN  SubSeq(s, lo, hi)

\* User.validate_email: ^[a-zA-Z0-9._%+-]+@[a-zA-Z0-9.-]+\.[a-zA-Z]{2,}$
\* Without re.MULTILINE, $ matches at the end of the text and also just
\* before a newline that ends it.
EmailLocalChars == Letters \cup AsciiDigits \cup {".", "_", "%", "+", "-"}
EmailDomainChars == Letters \cup AsciiDigits \cup {".", "-"}
validate_email(email) ==
    \E end \in {Len(email)} \cup {n \in {Len(email) - 1} : n >= 0 /\ email[n + 1] = "\n"} :
      \E at \in 1..end : \E dot \in 1..end :
        /\ at >= 2
        /\ \A i \in 1..(at - 1) : email[i] \in EmailLocalChars
        /\ email[at] = "@"
        /\ dot >= at + 2
        /\ \A i \in (at + 1)..(dot - 1) : email[i] \in EmailDomainChars
        /\ email[dot] = "."
        /\ end - dot >= 2
        /\ \A i \in (dot + 1)..end : email[i] \in Letters

\* User.validate_password: the first failing rule, or "ok".
SpecialChars == {"!", "@", "#", "$", "%", "^", "&", "*", "(", ")", ",", ".",
                 "?", "\"", ":", "{", "}", "|", "<", ">"}
\* validate_password with the length test written as <= 10.
validate_password_over_ten(password) ==
    IF Len(password) <= 10 THEN "too_short"
    ELSE IF ~ \E i \in 1..Len(password) : password[i] \in Digits THEN "no_digit"
    ELSE IF ~ \E i \in 1..Len(password) : password[i] \in SpecialChars THEN "no_special"
    ELSE "ok"

validate_password(password) ==
    IF Len(password) < 10 THEN "too_short"
    ELSE IF ~ \E i \in 1..Len(password) : password[i] \in Digits THEN "no_digit"
    ELSE IF ~ \E i \in 1..Len(password) : password[i] \in SpecialChars THEN "no_special"
    ELSE "ok"

\* str.encode('utf-8'): the bytes of a text.  A byte below 128 is written as
\* the character it encodes, any other byte b as "x" followed by b.
Utf8(text) ==
    LET Byte(b) == "x" \o ToString(b)
        Tail6(n) == Byte(128 + (n % 64))
        Bytes(c) ==
            IF c \in Ascii THEN <<c>>
            ELSE IF c \in {Char(cp) : cp \in 128..2047}
            THEN LET cp == CHOOSE x \in 128..2047 : Char(x) = c
                 IN  <<Byte(192 + (cp \div 64)), Tail6(cp)>>
            ELSE IF c \in {Char(cp) : cp \in 2048..65535}
            THEN LET cp == CHOOSE x \in 2048..65535 : Char(x) = c
                 IN  <<Byte(224 + (cp \div 4096)), Tail6(cp \div 64), Tail6(cp)>>
            ELSE LET cp == CHOOSE x \in 65536..1114111 : Char(x) = c
                 IN  <<Byte(240 + (cp \div 262144)), Tail6(cp \div 4096), Tail6(cp \div 64),
                       Tail6(cp)>>
        RECURSIVE From(_)
        From(i) == IF i > Len(text) THEN <<>> ELSE Bytes(text[i]) \o From(i + 1)
    IN  From(1)

\* bcrypt.gensalt(): 128 random bits.  Only the equality of two salts
\* matters, and a salt drawn anew equals none drawn before, whether a stored
\* hash still carries the earlier one or not: the salt is named by its rank
\* among the draws (d.saltSeq counts them).
gensalt(d) == "salt" \o ToString(d.saltSeq + 1)

\* The state after a call of bcrypt.gensalt.
Drawn(d) == [d EXCEPT !.saltSeq = @ + 1]

\* User.hash_password is bcrypt.hashpw(password.encode('utf-8'), salt) with
\* salt = bcrypt.gensalt(rounds=12).  The hash carries the cost, the salt and
\* a digest of the first 72 bytes of the password (bcrypt reads no more; the
\* releases from 5.0 on refuse a longer password instead); the digest is
\* written as the bytes it was made of.
hash_password(password, salt) ==
    LET bytes == Utf8(password)
    IN  <<"$2b$12$", salt>> \o SubSeq(bytes, 1, IF Len(bytes) > 72 THEN 72 ELSE Len(bytes))

\* User.verify_password is bcrypt.checkpw: the password is hashed with the
\* salt of the stored hash and the two are compared; any exception is False.
verify_password(password, password_hash) ==
    /\ Len(password_hash) >= 2
    /\ password_hash = hash_password(password, password_hash[2])

(***************************************************************************)
(* The User dataclass.                                                     *)
(***************************************************************************)
\* The fields of auth.models.User; the generated __init__ accepts no other
\* keyword.
UserFields == {"id", "email", "password_hash", "email_verified", "verification_token",
               "reset_token", "reset_token_expires", "created_at", "remember_token"}
\* created_at is written once, by the INSERT, and no handler reads it: the
\* rows of the model leave the column out.
UserRequired == {"id", "email", "password_hash"}

UserDefault(f) ==
    CASE f = "email_verified" -> FALSE
      [] f \in {"verification_token", "reset_token", "remember_token"} -> NoToken
      [] OTHER -> NoTime

\* User(**kw): TypeError on an unexpected or a missing keyword.
User(kw) ==
    IF (DOMAIN kw) \subseteq UserFields /\ UserRequired \subseteq (DOMAIN kw)
    THEN [exc |-> "none",
          val |-> [f \in UserFields |-> IF f \in DOMAIN kw THEN kw[f] ELSE UserDefault(f)]]
    ELSE [exc |-> "TypeError", val |-> <<>>]

\* User.is_reset_token_valid
is_reset_token_valid(u, t) ==
    IF u.reset_token = NoToken \/ u.reset_token_expires = NoTime THEN FALSE
    ELSE t < u.reset_token_expires

(***************************************************************************)
(* The store: auth/database.py.  A store value d holds both tables and     *)
(* their id sequences; every method yields the store after the call (as    *)
(* committed), the exception that left it ("none" if none) and its result. *)
(***************************************************************************)
Db == [users |-> users, sessions |-> sessions, userSeq |-> userSeq, sessSeq |-> sessSeq,
       saltSeq |-> saltSeq]

\* The tables and their id sequences, without the count of salts.
Store(d) == [users |-> d.users, sessions |-> d.sessions, userSeq |-> d.userSeq,
             sessSeq |-> d.sessSeq]

NoRet == [found |-> FALSE]

UserRow(id, username, email, password_hash, verification_token) ==
    [id |-> id, username |-> username, email |-> email, password_hash |-> password_hash,
     email_verified |-> FALSE, verification_token |-> verification_token,
     reset_token |-> NoToken, reset_token_expires |-> NoTime,
     remember_token |-> NoToken]

\* fetchone() of a SELECT on users: the row with the least id.
FirstRow(rows) == CHOOSE r \in rows : \A q \in rows : r.id <= q.id

\* _row_to_user: every column of the row, username included, is passed to User.
row_to_user(row) == User(row)

\* An INSERT into a table users declared without its UNIQUE constraints.
create_user_unconstrained(d, username, email, password_hash, verification_token) ==
    LET id == d.userSeq + 1
        row == UserRow(id, username, email, password_hash, verification_token)
        inserted == [d EXCEPT !.users = @ \cup {row}, !.userSeq = id]
        obj == User([id |-> id, username |-> username, email |-> email,
                     password_hash |-> password_hash,
                     verification_token |-> verification_token])
    IN  IF backend = "sqlite"
        THEN IF obj.exc # "none" THEN [db |-> d, exc |-> obj.exc, ret |-> NoRet]
             ELSE [db |-> inserted, exc |-> "none", ret |-> [found |-> TRUE, user |-> obj.val]]
        ELSE IF obj.exc # "none" THEN [db |-> inserted, exc |-> obj.exc, ret |-> NoRet]
             ELSE [db |-> inserted, exc |-> "none", ret |-> [found |-> TRUE, user |-> obj.val]]

\* SQLiteAuthDatabase.create_user builds the User inside the connection's
\* context, so an exception there rolls the INSERT back.
create_user_sqlite(d, username, email, password_hash, verification_token) ==
    LET id == d.userSeq + 1
        dup == \E u \in d.users : u.username = username \/ u.email = email
        row == UserRow(id, username, email, password_hash, verification_token)
        inserted == [d EXCEPT !.users = @ \cup {row}, !.userSeq = id]
        obj == User([id |-> id, username |-> username, email |-> email,
                     password_hash |-> password_hash,
                     verification_token |-> verification_token])
    IN  IF dup THEN [db |-> d, exc |-> "IntegrityError", ret |-> NoRet]
        ELSE IF obj.exc # "none" THEN [db |-> d, exc |-> obj.exc, ret |-> NoRet]
        ELSE [db |-> inserted, exc |-> "none", ret |-> [found |-> TRUE, user |-> obj.val]]

\* The length of the columns username and email of the PostgreSQL table users.
VarcharMax == 255

\* A text holding U+0000, which the PostgreSQL driver refuses to send.
HasNul(text) == \E i \in 1..Len(text) : text[i] = Char(0)

\* A value assigned to a VARCHAR(255) column: PostgreSQL cuts a longer value
\* to the column's length when all it cuts are spaces (U+0020), and refuses
\* it otherwise.
Varchar(text) ==
    IF /\ Len(text) > VarcharMax
       /\ \A i \in (VarcharMax + 1)..Len(text) : text[i] = " "
    THEN SubSeq(text, 1, VarcharMax)
    ELSE text

\* PostgresAuthDatabase.create_user commits the INSERT, then builds the User
\* from its arguments.  A text holding U+0000 is refused by the driver, and
\* a username or an email that Varchar leaves longer than its column is
\* refused by the server: neither stores a row or takes a value of the id
\* sequence.  An INSERT that fails on a UNIQUE constraint consumes a value
\* of the id sequence.
create_user_postgres(d, username, email, password_hash, verification_token) ==
    LET id == d.userSeq + 1
        refused == \/ HasNul(username) \/ HasNul(email)
                   \/ Len(Varchar(username)) > VarcharMax
                   \/ Len(Varchar(email)) > VarcharMax
        dup == \E u \in d.users : u.username = Varchar(username) \/ u.email = Varchar(email)
        row == UserRow(id, Varchar(username), Varchar(email), password_hash,
                       verification_token)
        inserted == [d EXCEPT !.users = @ \cup {row}, !.userSeq = id]
        obj == User([id |-> id, username |-> username, email |-> email,
                     password_hash |-> password_hash,
                     verification_token |-> verification_token])
    IN  IF refused THEN [db |-> d, exc |-> "DataError", ret |-> NoRet]
        ELSE IF dup
        THEN [db |-> [d EXCEPT !.userSeq = id], exc |-> "IntegrityError", ret |-> NoRet]
        ELSE IF obj.exc # "none" THEN [db |-> inserted, exc |-> obj.exc, ret |-> NoRet]
        ELSE [db |-> inserted, exc |-> "none", ret |-> [found |-> TRUE, user |-> obj.val]]

\* create_user of the backend get_auth_database selected.
create_user(d, username, email, password_hash, verification_token) ==
    IF backend = "sqlite"
    THEN create_user_sqlite(d, username, email, password_hash, verification_token)
    ELSE create_user_postgres(d, username, email, password_hash, verification_token)

\* get_user_by_email / _username / _id / _verification_token / _reset_token:
\* SELECT * FROM users WHERE col = value, then _row_to_user.  A NULL value
\* (None) equals no column in SQL, a NULL column included.  The PostgreSQL
\* driver refuses a text holding U+0000.
get_user_by(d, col, value) ==
    LET null == col \in {"verification_token", "reset_token"} /\ value = NoToken
        rows == {u \in d.users : ~null /\ u[col] = value}
        refused == backend = "postgres" /\ col \in {"username", "email"} /\ HasNul(value)
    IN  IF refused THEN [db |-> d, exc |-> "DataError", ret |-> NoRet]
        ELSE IF rows = {} THEN [db |-> d, exc |-> "none", ret |-> NoRet]
        ELSE LET obj == row_to_user(FirstRow(rows))
             IN  IF obj.exc # "none" THEN [db |-> d, exc |-> obj.exc, ret |-> NoRet]
                 ELSE [db |-> d, exc |-> "none", ret |-> [found |-> TRUE, user |-> obj.val]]

\* An UPDATE that sets email_verified and leaves verification_token stored.
verify_email_keeps_token(d, user_id) ==
    [db |-> [d EXCEPT !.users =
                {IF u.id = user_id THEN [u EXCEPT !.email_verified = TRUE] ELSE u : u \in @}],
     exc |-> "none",
     ret |-> [found |-> \E u \in d.users : u.id = user_id]]

\* verify_email: UPDATE users SET email_verified, verification_token = NULL.
verify_email(d, user_id) ==
    [db |-> [d EXCEPT !.users =
                {IF u.id = user_id
                 THEN [u EXCEPT !.email_verified = TRUE, !.verification_token = NoToken]
                 ELSE u : u \in @}],
     exc |-> "none",
     ret |-> [found |-> \E u \in d.users : u.id = user_id]]

\* set_reset_token
set_reset_token(d, user_id, reset_token, expires_at) ==
    [db |-> [d EXCEPT !.users =
                {IF u.id = user_id
                 THEN [u EXCEPT !.reset_token = reset_token,
                                !.reset_token_expires = expires_at]
                 ELSE u : u \in @}],
     exc |-> "none",
     ret |-> [found |-> \E u \in d.users : u.id = user_id]]

\* An update that also resets the verification flag, as an UPDATE written
\* from the column defaults of a new row would.
update_password_unverified(d, user_id, new_password_hash) ==
    [db |-> [d EXCEPT !.users =
                {IF u.id = user_id
                 THEN [u EXCEPT !.password_hash = new_password_hash,
                                !.email_verified = FALSE,
                                !.reset_token = NoToken,
                                !.reset_token_expires = NoTime]
                 ELSE u : u \in @}],
     exc |-> "none",
     ret |-> [found |-> \E u \in d.users : u.id = user_id]]

\* An update that clears the reset token and leaves its expiry behind.
update_password_keeps_expiry(d, user_id, new_password_hash) ==
    [db |-> [d EXCEPT !.users =
                {IF u.id = user_id
                 THEN [u EXCEPT !.password_hash = new_password_hash,
                                !.reset_token = NoToken]
                 ELSE u : u \in @}],
     exc |-> "none",
     ret |-> [found |-> \E u \in d.users : u.id = user_id]]

\* update_password: the new hash, and the reset token cleared.
update_password(d, user_id, new_password_hash) ==
    [db |-> [d EXCEPT !.users =
                {IF u.id = user_id
                 THEN [u EXCEPT !.password_hash = new_password_hash,
                                !.reset_token = NoToken,
                                !.reset_token_expires = NoTime]
                 ELSE u : u \in @}],
     exc |-> "none",
     ret |-> [found |-> \E u \in d.users : u.id = user_id]]

\* SQLiteAuthDatabase.create_session.  session_token is UNIQUE; sqlite3
\* leaves foreign_keys off, so user_id is not checked.
create_session_sqlite(d, user_id, session_token, expires_at, remember_me) ==
    LET id == d.sessSeq + 1
        dup == \E s \in d.sessions : s.session_token = session_token
        row == [id |-> id, user_id |-> user_id, session_token |-> session_token,
                expires_at |-> expires_at, remember_me |-> remember_me]
        inserted == [d EXCEPT !.sessions = @ \cup {row}, !.sessSeq = id]
    IN  IF dup THEN [db |-> d, exc |-> "IntegrityError", ret |-> NoRet]
        ELSE [db |-> inserted, exc |-> "none", ret |-> [found |-> TRUE, id |-> id]]

\* PostgresAuthDatabase.create_session.  PostgreSQL enforces the foreign key
\* on user_id, and a failed INSERT consumes a value of the id sequence.
create_session_postgres(d, user_id, session_token, expires_at, remember_me) ==
    LET id == d.sessSeq + 1
        dup == \E s \in d.sessions : s.session_token = session_token
        fk == \E u \in d.users : u.id = user_id
        row == [id |-> id, user_id |-> user_id, session_token |-> session_token,
                expires_at |-> expires_at, remember_me |-> remember_me]
        inserted == [d EXCEPT !.sessions = @ \cup {row}, !.sessSeq = id]
    IN  IF dup \/ ~fk
        THEN [db |-> [d EXCEPT !.sessSeq = id], exc |-> "IntegrityError", ret |-> NoRet]
        ELSE [db |-> inserted, exc |-> "none", ret |-> [found |-> TRUE, id |-> id]]

\* create_session of the backend get_auth_database selected.
create_session(d, user_id, session_token, expires_at, remember_me) ==
    IF backend = "sqlite"
    THEN create_session_sqlite(d, user_id, session_token, expires_at, remember_me)
    ELSE create_session_postgres(d, user_id, session_token, expires_at, remember_me)

\* A deletion keyed on the token's owner instead of the token (the WHERE
\* clause of delete_user_sessions): it removes the owner's other sessions too.
delete_session_of_owner(d, session_token) ==
    LET owners == {s.user_id : s \in {x \in d.sessions : x.session_token = session_token}}
    IN  [db |-> [d EXCEPT !.sessions = {s \in @ : s.user_id \notin owners}],
         exc |-> "none",
         ret |-> [found |-> owners # {}]]

\* delete_session: DELETE FROM sessions WHERE session_token = ?
delete_session(d, session_token) ==
    [db |-> [d EXCEPT !.sessions = {s \in @ : s.session_token # session_token}],
     exc |-> "none",
     ret |-> [found |-> \E s \in d.sessions : s.session_token = session_token]]

\* A DELETE FROM sessions that leaves out its WHERE clause.
delete_user_sessions_of_all(d, user_id) ==
    [db |-> [d EXCEPT !.sessions = {}],
     exc |-> "none",
     ret |-> [found |-> \E s \in d.sessions : s.user_id = user_id]]

\* delete_user_sessions: DELETE FROM sessions WHERE user_id = ?
delete_user_sessions(d, user_id) ==
    [db |-> [d EXCEPT !.sessions = {s \in @ : s.user_id # user_id}],
     exc |-> "none",
     ret |-> [found |-> \E s \in d.sessions : s.user_id = user_id]]

\* The row of SELECT s.*, u.* as sqlite3.Row reads it by name: of the two
\* columns named id the first, the session's, is read.
SqliteJoinedRow(s, u) == [u EXCEPT !.id = s.id]

\* The session test of get_session: expired when now is later than expires_at.
session_expired(t, expires_at) == t > expires_at

\* get_session: the session joined to its user; an expired row is deleted.
get_session(d, session_token, t) ==
    LET joined == {p \in d.sessions \X d.users :
                       p[1].session_token = session_token /\ p[2].id = p[1].user_id}
    IN  IF joined = {} THEN [db |-> d, exc |-> "none", ret |-> NoRet]
        ELSE LET s == (CHOOSE p \in joined : TRUE)[1]
                 u == (CHOOSE p \in joined : TRUE)[2]
                 obj == IF backend = "sqlite" THEN row_to_user(SqliteJoinedRow(s, u))
                        ELSE User(u)
             IN  IF session_expired(t, s.expires_at)
                 THEN [db |-> delete_session(d, session_token).db, exc |-> "none",
                       ret |-> NoRet]
                 ELSE IF obj.exc # "none" THEN [db |-> d, exc |-> obj.exc, ret |-> NoRet]
                 ELSE [db |-> d, exc |-> "none",
                       ret |-> [found |-> TRUE, session_id |-> s.id, user |-> obj.val,
                                expires_at |-> s.expires_at, remember_me |-> s.remember_me]]

\* User.generate_token: secrets.token_urlsafe(32), a token that equals no
\* token produced before and no token in the store.
StoredTokens(d) ==
    {u.verification_token : u \in d.users} \cup {u.reset_token : u \in d.users}
        \cup {s.session_token : s \in d.sessions}
FreshTokens == Tokens \ (issued \cup StoredTokens(Db))
\* A generator that may repeat a token no row holds any more.
generate_token_repeating ==
    CHOOSE t \in Tokens \ StoredTokens(Db) : \A q \in Tokens \ StoredTokens(Db) : t <= q
generate_token == CHOOSE t \in FreshTokens : \A q \in FreshTokens : t <= q

(***************************************************************************)
(* The request handlers: auth/routes.py, auth/middleware.py, app.py.       *)
(* Each yields the store after the request, the tokens issued, the emails  *)
(* sent and the response (its kind, and the user or token it carries).     *)
(***************************************************************************)
Out(d, outcome, iss, mail, uid, tok) ==
    [db |-> d, outcome |-> outcome, issued |-> iss, outbox |-> mail, uid |-> uid, tok |-> tok]

\* A response that leaves tokens and emails as they were.
Plain(d, outcome) == Out(d, outcome, issued, outbox, 0, NoToken)

\* POST /auth/signup.  emailOk: whether the SMTP server accepts the message.
signup(d, username_in, email_in, password, confirm_password, emailOk) ==
    LET username == Strip(username_in)
        email == Lower(Strip(email_in))
        byEmail == get_user_by(d, "email", email)
        byName == get_user_by(d, "username", username)
        tok == generate_token
        made == create_user(Drawn(d), username, email, hash_password(password, gensalt(d)), tok)
        mail == [kind |-> "verification", to |-> email, token |-> tok]
    IN  IF username = <<>> \/ email = <<>> \/ password = <<>> THEN Plain(d, "MissingField")
        ELSE IF Len(username) < 3 THEN Plain(d, "UsernameTooShort")
        ELSE IF ~validate_email(email) THEN Plain(d, "InvalidEmail")
        ELSE IF validate_password(password) # "ok" THEN Plain(d, "WeakPassword")
        ELSE IF password # confirm_password THEN Plain(d, "PasswordMismatch")
        ELSE IF byEmail.exc # "none" THEN Plain(d, "Error")
        ELSE IF byEmail.ret.found THEN Plain(d, "DuplicateEmail")
        ELSE IF byName.exc # "none" THEN Plain(d, "Error")
        ELSE IF byName.ret.found THEN Plain(d, "DuplicateUsername")
        ELSE IF made.exc # "none"
             THEN Out(made.db, "Error", issued \cup {tok}, outbox, 0, NoToken)
        ELSE IF emailOk
             THEN Out(made.db, "Created", issued \cup {tok}, outbox \cup {mail},
                      made.ret.user.id, NoToken)
        ELSE Out(made.db, "CreatedNoEmail", issued \cup {tok}, outbox,
                 made.ret.user.id, NoToken)

\* POST /auth/signup, statement by statement.  First the validation of the
\* form and the look-up by email: the rejection, or "Pass".
signup_check(d, username_in, email_in, password, confirm_password) ==
    LET username == Strip(username_in)
        email == Lower(Strip(email_in))
        byEmail == get_user_by(d, "email", email)
    IN  IF username = <<>> \/ email = <<>> \/ password = <<>> THEN "MissingField"
        ELSE IF Len(username) < 3 THEN "UsernameTooShort"
        ELSE IF ~validate_email(email) THEN "InvalidEmail"
        ELSE IF validate_password(password) # "ok" THEN "WeakPassword"
        ELSE IF password # confirm_password THEN "PasswordMismatch"
        ELSE IF byEmail.exc # "none" THEN "Error"
        ELSE IF byEmail.ret.found THEN "DuplicateEmail"
        ELSE "Pass"

\* Then the look-up by user name, a store call of its own.
signup_check_username(d, username_in) ==
    LET byName == get_user_by(d, "username", Strip(username_in))
    IN  IF byName.exc # "none" THEN "Error"
        ELSE IF byName.ret.found THEN "DuplicateUsername"
        ELSE "Pass"

\* Then the INSERT of the user and the verification email.
signup_insert(d, username_in, email_in, password, emailOk) ==
    LET username == Strip(username_in)
        email == Lower(Strip(email_in))
        tok == generate_token
        made == create_user(Drawn(d), username, email, hash_password(password, gensalt(d)), tok)
        mail == [kind |-> "verification", to |-> email, token |-> tok]
    IN  IF made.exc # "none"
        THEN Out(made.db, "Error", issued \cup {tok}, outbox, 0, NoToken)
        ELSE IF emailOk
             THEN Out(made.db, "Created", issued \cup {tok}, outbox \cup {mail},
                      made.ret.user.id, NoToken)
        ELSE Out(made.db, "CreatedNoEmail", issued \cup {tok}, outbox,
                 made.ret.user.id, NoToken)

\* GET /auth/verify/<token>.  The handler catches nothing: an exception of
\* the store is the framework's 500 response.
verify_email_route(d, token) ==
    LET found == get_user_by(d, "verification_token", token)
    IN  IF found.exc # "none" THEN Plain(d, "Error500")
        ELSE IF ~found.ret.found THEN Plain(d, "Invalid")
        ELSE IF found.ret.user.email_verified THEN Plain(d, "AlreadyVerified")
        ELSE Out(verify_email(d, found.ret.user.id).db, "Verified", issued, outbox,
                 found.ret.user.id, NoToken)

\* POST /auth/login.  The response of a successful login carries the cookie.
login(d, identifier_in, password, remember_me) ==
    LET ident == Lower(Strip(identifier_in))
        byEmail == get_user_by(d, "email", ident)
        byName == get_user_by(d, "username", ident)
        found == IF byEmail.ret.found THEN byEmail ELSE byName
        tok == generate_token
        expires_at == now + (IF remember_me THEN RememberDays ELSE SessionDays) * HoursPerDay
        made == create_session(d, found.ret.user.id, tok, expires_at, remember_me)
    IN  IF ident = <<>> \/ password = <<>> THEN Plain(d, "MissingField")
        ELSE IF byEmail.exc # "none" THEN Plain(d, "Error")
        ELSE IF ~byEmail.ret.found /\ byName.exc # "none" THEN Plain(d, "Error")
        ELSE IF ~found.ret.found THEN Plain(d, "InvalidCredentials")
        ELSE IF ~verify_password(password, found.ret.user.password_hash)
             THEN Plain(d, "InvalidCredentials")
        ELSE IF ~found.ret.user.email_verified THEN Plain(d, "EmailNotVerified")
        ELSE IF made.exc # "none"
             THEN Out(made.db, "Error", issued \cup {tok}, outbox, 0, NoToken)
        ELSE Out(made.db, "LoggedIn", issued \cup {tok}, outbox, found.ret.user.id, tok)

\* response.set_cookie of login: the cookie that carries the session token.
set_cookie(session_token, expires_at) ==
    [name |-> "session_token", value |-> session_token, expires |-> expires_at,
     httponly |-> TRUE, secure |-> FALSE, samesite |-> "Lax"]

\* logout_user and POST /auth/logout: the cookie's session is deleted.
logout(d, cookie) ==
    IF cookie # NoToken THEN Plain(delete_session(d, cookie).db, "LoggedOut")
    ELSE Plain(d, "LoggedOut")

\* POST /auth/forgot-password.
forgot_password(d, email_in, emailOk) ==
    LET email == Lower(Strip(email_in))
        found == get_user_by(d, "email", email)
        tok == generate_token
        mail == [kind |-> "reset", to |-> email, token |-> tok]
        set == set_reset_token(d, found.ret.user.id, tok, now + ResetHours)
    IN  IF email = <<>> THEN Plain(d, "MissingField")
        ELSE IF found.exc # "none" THEN Plain(d, "Error")
        ELSE IF found.ret.found
             THEN Out(set.db, "CheckYourEmail", issued \cup {tok},
                      IF emailOk THEN outbox \cup {mail} ELSE outbox,
                      found.ret.user.id, NoToken)
        ELSE Plain(d, "CheckYourEmail")

\* POST /auth/reset-password/<token>.
reset_password(d, token, password, confirm_password) ==
    LET found == get_user_by(d, "reset_token", token)
        updated == update_password(Drawn(d), found.ret.user.id,
                                   hash_password(password, gensalt(d)))
        purged == delete_user_sessions(updated.db, found.ret.user.id)
    IN  IF found.exc # "none" THEN Plain(d, "Error")
        ELSE IF ~found.ret.found THEN Plain(d, "InvalidOrExpired")
        ELSE IF ~is_reset_token_valid(found.ret.user, now) THEN Plain(d, "InvalidOrExpired")
        ELSE IF validate_password(password) # "ok" THEN Plain(d, "WeakPassword")
        ELSE IF password # confirm_password THEN Plain(d, "PasswordMismatch")
        ELSE Out(purged.db, "Reset", issued, outbox, found.ret.user.id, NoToken)

\* GET /auth/reset-password/<token>: the form, or the notice of an invalid
\* link.  The handler catches nothing.
reset_password_page(d, token) ==
    LET found == get_user_by(d, "reset_token", token)
    IN  IF found.exc # "none" THEN Plain(d, "Error500")
        ELSE IF ~found.ret.found THEN Plain(d, "InvalidOrExpired")
        ELSE IF ~is_reset_token_valid(found.ret.user, now) THEN Plain(d, "InvalidOrExpired")
        ELSE Plain(d, "ResetForm")

\* get_current_user (middleware): the user of the cookie's session, or None
\* ("Anonymous").  An exception of get_session is not caught.
get_current_user(d, cookie) ==
    LET got == get_session(d, cookie, now)
    IN  IF cookie = NoToken THEN Plain(d, "Anonymous")
        ELSE IF got.exc # "none" THEN Plain(got.db, "Error500")
        ELSE IF ~got.ret.found THEN Plain(got.db, "Anonymous")
        ELSE Out(got.db, "User", issued, outbox, got.ret.user.id, NoToken)

\* ReminderApp._current_user_id (app.py): the user id of the cookie's
\* session read from table sessions alone; None without DATABASE_URL.
current_user_id(d, cookie) ==
    LET rows == {s \in d.sessions : s.session_token = cookie}
        row == CHOOSE s \in rows : TRUE
    IN  IF cookie = NoToken \/ backend # "postgres" THEN Plain(d, "Anonymous")
        ELSE IF rows = {} THEN Plain(d, "Anonymous")
        ELSE IF now > row.expires_at
             THEN Plain([d EXCEPT !.sessions = {s \in @ : s.session_token # cookie}],
                        "Anonymous")
        ELSE Out(d, "User", issued, outbox, row.user_id, NoToken)

\* login_required (middleware): the decorator's decision for a request to
\* a path under /api/ (api) or to a page.  "Handler" is the call of the
\* decorated function.
login_required(d, cookie, api) ==
    LET got == get_session(d, cookie, now)
    IN  IF cookie = NoToken THEN Plain(d, IF api THEN "Forbidden403" ELSE "RedirectLogin")
        ELSE IF got.exc # "none" THEN Plain(got.db, "Error500")
        ELSE IF ~got.ret.found
             THEN Plain(got.db, IF api THEN "Forbidden403" ELSE "RedirectLogin")
        ELSE IF ~got.ret.user.email_verified THEN Plain(got.db, "RedirectVerification")
        ELSE Out(got.db, "Handler", issued, outbox, got.ret.user.id, NoToken)

\* ReminderApp.get_messages, add_message, delete_message (app.py): the
\* handler's own test of the caller before it reads or writes messages.
api_messages(d, cookie) ==
    LET who == current_user_id(d, cookie)
    IN  IF who.outcome = "Anonymous" THEN Plain(who.db, "Unauthorized401")
        ELSE Out(who.db, "Handler", issued, outbox, who.uid, NoToken)

\* ReminderApp.admin (app.py): the admin page, sent to every caller.
admin(d, cookie) == Plain(d, "Handler")

\* The same requests while the database cannot be reached: the first
\* statement sent to it raises OperationalError.
get_current_user_storage_down(d, cookie) ==
    IF cookie = NoToken THEN Plain(d, "Anonymous") ELSE Plain(d, "Error500")

current_user_id_storage_down(d, cookie) == Plain(d, "Anonymous")

api_messages_storage_down(d, cookie) ==
    IF current_user_id_storage_down(d, cookie).outcome = "Anonymous"
    THEN Plain(d, "Unauthorized401")
    ELSE Plain(d, "Handler")

login_storage_down(d, identifier_in, password) ==
    IF Lower(Strip(identifier_in)) = <<>> \/ password = <<>> THEN Plain(d, "MissingField")
    ELSE Plain(d, "Error")

(***************************************************************************)
(* Inputs of the requests.                                                 *)
(***************************************************************************)
EmailA == <<"a","@","b",".","c","o">>
EmailAUpper == <<"\r","A","@","B",".","c","o">>
EmailC == <<"c","@","d",".","c","o">>
EmailBad == <<"a","b",".","c","o">>
NameBob == <<"b","o","b">>
NameAmy == <<"A","m","y"," ">>
NameAl == <<"a","l">>
PwStrong == <<"A","b","c","d","e","f","g","1","2","3","!">>
PwOther == <<"Q","w","e","r","t","y","u","i","9","9","?">>
PwShort == <<"a","b","c","1","!">>
PwNoSpecial == <<"A","b","c","d","e","f","g","h","1","2","3">>

\* Sign-up forms <<username, email, password, confirmation>>: the well-formed
\* ones, and one for each validation rule.
SignupForms ==
    ({NameBob, NameAmy} \X {EmailA, EmailAUpper, EmailC} \X {PwStrong} \X {PwStrong})
        \cup {<<NameBob, EmailC, PwOther, PwOther>>,
              <<NameBob, <<>>, PwStrong, PwStrong>>,
              <<NameAl, EmailA, PwStrong, PwStrong>>,
              <<NameBob, EmailBad, PwStrong, PwStrong>>,
              <<NameBob, EmailA, PwShort, PwShort>>,
              <<NameBob, EmailA, PwNoSpecial, PwNoSpecial>>,
              <<NameBob, EmailA, PwStrong, PwOther>>}
\* The forms of two sign-ups that compete: one email in two spellings under
\* two user names, and another account.
RaceForms ==
    ({NameBob, NameAmy} \X {EmailA, EmailAUpper} \X {PwStrong} \X {PwStrong})
        \cup {<<NameBob, EmailC, PwOther, PwOther>>}
EmailInputs == {EmailA, EmailAUpper, EmailC, EmailBad, <<>>}
IdentInputs == {EmailA, EmailAUpper, EmailC, NameBob, NameAmy, <<>>}
LoginPasswords == {PwStrong, PwOther, <<>>}
\* Reset forms <<password, confirmation>>.
ResetForms == {<<PwStrong, PwStrong>>, <<PwOther, PwOther>>, <<PwShort, PwShort>>,
               <<PwOther, PwStrong>>}
CookieInputs == Tokens \cup {NoToken}
\* Accounts <<username, email>> a client of the store creates.
Accounts == {<<NameBob, EmailA>>, <<Strip(NameAmy), EmailC>>}
\* A user name one character longer than the PostgreSQL column, and one
\* holding U+0000.
NameLong == [i \in 1..(VarcharMax + 1) |-> "b"]
NameNul == <<"b", "o", Char(0)>>
\* A user name of the column's length followed by a space.
NameSpaced == [i \in 1..(VarcharMax + 1) |-> IF i <= VarcharMax THEN "b" ELSE " "]
WideAccounts ==
    Accounts \cup {<<NameLong, EmailC>>, <<NameNul, EmailC>>, <<NameSpaced, EmailC>>}
UserIds == 1..MaxUsers

(***************************************************************************)
(* The state machine.                                                      *)
(***************************************************************************)
\* Two requests the server may be serving at the same time, and where each
\* stands: the statement it has reached, what it has read, what it answers.
Procs == {"A", "B"}
Request(op, step, arg, saw, deleted, outcome) ==
    [op |-> op, step |-> step, arg |-> arg, saw |-> saw, deleted |-> deleted,
     outcome |-> outcome]
Idle == Request("idle", "done", NoToken, {}, FALSE, "none")

\* A response: the handler or method, the kind of its result, the user id
\* and the cookie it carries, and whether the store changed.
Response(op, outcome, uid, cookie, changed) ==
    [op |-> op, outcome |-> outcome, uid |-> uid, cookie |-> cookie, changed |-> changed]

Init ==
    /\ backend \in {"sqlite", "postgres"}
    /\ users = {}
    /\ sessions = {}
    /\ userSeq = 0
    /\ sessSeq = 0
    /\ now = 0
    /\ issued = {}
    /\ vlog = {}
    /\ outbox = {}
    /\ last = Response("init", "none", 0, NoToken, FALSE)
    /\ inflight = [p \in Procs |-> Idle]
    /\ messages = {}
    /\ idSeq = 0
    /\ saltSeq = 0

\* The store, the tokens and the emails after a step of a request, and its
\* response.
Apply(r, op) ==
    /\ users' = r.db.users
    /\ sessions' = r.db.sessions
    /\ userSeq' = r.db.userSeq
    /\ sessSeq' = r.db.sessSeq
    /\ issued' = r.issued
    /\ outbox' = r.outbox
    /\ vlog' = vlog \cup {<<u.id, u.verification_token>> :
                            u \in {x \in r.db.users : x.id \notin {y.id : y \in users}}}
    /\ saltSeq' = r.db.saltSeq
    /\ last' = Response(op, r.outcome, r.uid, r.tok, Store(r.db) # Store(Db))
    /\ UNCHANGED <<backend, now, messages, idSeq>>

\* A request served in one piece, with no other request between its statements.
Commit(r, op) ==
    /\ Apply(r, op)
    /\ UNCHANGED inflight

\* The response of a direct call of a store method: the exception, or
\* whether it found (created, changed, deleted) a row.
Called(res, uid) ==
    Out(res.db, IF res.exc # "none" THEN res.exc
                ELSE IF res.ret.found THEN "Found" ELSE "None",
        issued, outbox, uid, NoToken)

Signup(username, email, password, confirm_password, emailOk) ==
    /\ userSeq < MaxUsers
    /\ saltSeq < MaxSalts
    /\ FreshTokens # {}
    /\ Commit(signup(Db, username, email, password, confirm_password, emailOk), "signup")

VerifyEmail(token) ==
    /\ token \in Tokens
    /\ Commit(verify_email_route(Db, token), "verify_email")

Login(identifier, password, remember_me) ==
    /\ sessSeq < MaxSessions
    /\ FreshTokens # {}
    /\ Commit(login(Db, identifier, password, remember_me), "login")

Logout(cookie) ==
    /\ cookie \in CookieInputs
    /\ Commit(logout(Db, cookie), "logout")

ForgotPassword(email, emailOk) ==
    /\ FreshTokens # {}
    /\ Commit(forgot_password(Db, email, emailOk), "forgot_password")

ResetPassword(token, password, confirm_password) ==
    /\ token \in Tokens
    /\ Commit(reset_password(Db, token, password, confirm_password), "reset_password")

ResetPasswordPage(token) ==
    /\ token \in Tokens
    /\ Commit(reset_password_page(Db, token), "reset_password_page")

GetCurrentUser(cookie) ==
    /\ cookie \in CookieInputs
    /\ Commit(get_current_user(Db, cookie), "get_current_user")

CurrentUserId(cookie) ==
    /\ cookie \in CookieInputs
    /\ Commit(current_user_id(Db, cookie), "current_user_id")

LoginRequired(cookie, api) ==
    /\ cookie \in CookieInputs
    /\ Commit(login_required(Db, cookie, api), "login_required")

ApiMessages(cookie) ==
    /\ cookie \in CookieInputs
    /\ Commit(api_messages(Db, cookie), "api_messages")

Admin(cookie) ==
    /\ cookie \in CookieInputs
    /\ Commit(admin(Db, cookie), "admin")

GetCurrentUserStorageDown(cookie) ==
    /\ cookie \in CookieInputs
    /\ Commit(get_current_user_storage_down(Db, cookie), "get_current_user_down")

CurrentUserIdStorageDown(cookie) ==
    /\ cookie \in CookieInputs
    /\ Commit(current_user_id_storage_down(Db, cookie), "current_user_id_down")

ApiMessagesStorageDown(cookie) ==
    /\ cookie \in CookieInputs
    /\ Commit(api_messages_storage_down(Db, cookie), "api_messages_down")

LoginStorageDown(identifier, password) ==
    /\ identifier \in IdentInputs
    /\ Commit(login_storage_down(Db, identifier, password), "login_down")

DbCreateUser(username, email, password, verification_token) ==
    /\ userSeq < MaxUsers
    /\ verification_token \in Tokens => verification_token \notin issued
    /\ saltSeq < MaxSalts
    /\ LET res == create_user(Drawn(Db), username, email,
                              hash_password(password, gensalt(Db)),
                              verification_token)
       IN  Commit(Out(res.db, Called(res, 0).outcome,
                      issued \cup ({verification_token} \ {NoToken}), outbox, 0, NoToken),
                  "db_create_user")

DbVerifyEmail(user_id) ==
    /\ user_id \in UserIds
    /\ Commit(Called(verify_email(Db, user_id), 0), "db_verify_email")

DbSetResetToken(user_id, token, expires_at) ==
    /\ user_id \in UserIds
    /\ Commit(Called(set_reset_token(Db, user_id, token, expires_at), 0),
              "db_set_reset_token")

DbUpdatePassword(user_id, password) ==
    /\ user_id \in UserIds
    /\ saltSeq < MaxSalts
    /\ Commit(Called(update_password(Drawn(Db), user_id,
                                     hash_password(password, gensalt(Db))), 0),
              "db_update_password")

DbCreateSession(user_id, token, expires_at, remember_me) ==
    /\ sessSeq < MaxSessions
    /\ Commit(Called(create_session(Db, user_id, token, expires_at, remember_me), 0),
              "db_create_session")

\* The session a login creates once it has authenticated a user whose email
\* is verified: a newly generated token, expiring a day or thirty days later.
DbIssueSession(user_id, remember_me) ==
    /\ sessSeq < MaxSessions
    /\ FreshTokens # {}
    /\ \E u \in users : u.id = user_id /\ u.email_verified
    /\ LET tok == generate_token
           expires_at == now + (IF remember_me THEN RememberDays ELSE SessionDays) * HoursPerDay
           res == create_session(Db, user_id, tok, expires_at, remember_me)
       IN  Commit(Out(res.db, Called(res, 0).outcome, issued \cup {tok}, outbox,
                      user_id, tok),
                  "db_issue_session")

DbGetSession(token) ==
    /\ token \in Tokens
    /\ LET res == get_session(Db, token, now)
       IN  Commit(Called(res, IF res.ret.found THEN res.ret.user.id ELSE 0),
                  "db_get_session")

DbDeleteSession(token) ==
    /\ token \in Tokens
    /\ Commit(Called(delete_session(Db, token), 0), "db_delete_session")

DbDeleteUserSessions(user_id) ==
    /\ user_id \in UserIds
    /\ Commit(Called(delete_user_sessions(Db, user_id), 0), "db_delete_user_sessions")

\* get_session, statement by statement.  First the SELECT of the joined row
\* and the test of its expiry: the call ends here unless the row is expired.
GetSessionSelect(p, token) ==
    /\ inflight[p].step = "done"
    /\ LET rows == {s \in sessions : s.session_token = token
                                       /\ \E u \in users : u.id = s.user_id}
           expired == \E s \in rows : session_expired(now, s.expires_at)
           outcome == IF expired THEN "none" ELSE Called(get_session(Db, token, now), 0).outcome
       IN  /\ inflight' = [inflight EXCEPT ![p] =
                              Request("get_session", IF expired THEN "expired" ELSE "done",
                                      token, rows, FALSE, outcome)]
           /\ Apply(Plain(Db, outcome), "get_session_select")

\* _current_user_id, statement by statement: the SELECT and the test.
\* Without DATABASE_URL the call answers None and sends no statement.
CurrentUserIdSelect(p, token) ==
    /\ inflight[p].step = "done"
    /\ LET asked == token # NoToken /\ backend = "postgres"
           rows == IF asked THEN {s \in sessions : s.session_token = token} ELSE {}
           expired == \E s \in rows : now > s.expires_at
           answer == current_user_id(Db, token)
           outcome == IF expired THEN "none" ELSE answer.outcome
           uid == IF expired THEN 0 ELSE answer.uid
       IN  /\ inflight' = [inflight EXCEPT ![p] =
                              Request("current_user_id", IF expired THEN "expired" ELSE "done",
                                      token, rows, FALSE, outcome)]
           /\ Apply(Out(Db, outcome, issued, outbox, uid, NoToken), "current_user_id_select")

\* Then, for the reader that found the row expired, the DELETE and None.
ExpiredDelete(p) ==
    /\ inflight[p].step = "expired"
    /\ inflight' = [inflight EXCEPT ![p] =
                       [@ EXCEPT !.step = "done", !.deleted = TRUE, !.outcome = "None"]]
    /\ Apply(Plain(delete_session(Db, inflight[p].arg).db, "None"), "expired_delete")

\* signup, store call by store call: the form and the look-up by email, the
\* look-up by user name, then the INSERT and the email.  Each store call is
\* a connection and a transaction of its own.
SignupCheck(p, f, emailOk) ==
    /\ inflight[p].step = "done"
    /\ LET outcome == signup_check(Db, f[1], f[2], f[3], f[4])
       IN  /\ inflight' = [inflight EXCEPT ![p] =
                              Request("signup_check",
                                      IF outcome = "Pass" THEN "email_checked" ELSE "done",
                                      <<f, emailOk>>, {}, FALSE, outcome)]
           /\ Apply(Plain(Db, outcome), "signup_check")

SignupCheckUsername(p) ==
    /\ inflight[p].step = "email_checked"
    /\ LET outcome == signup_check_username(Db, inflight[p].arg[1][1])
       IN  /\ inflight' = [inflight EXCEPT ![p] =
                              [@ EXCEPT !.op = "signup_check_username",
                                        !.step = IF outcome = "Pass" THEN "checked" ELSE "done",
                                        !.outcome = outcome]]
           /\ Apply(Plain(Db, outcome), "signup_check_username")

SignupInsert(p) ==
    /\ inflight[p].step = "checked"
    /\ userSeq < MaxUsers
    /\ saltSeq < MaxSalts
    /\ FreshTokens # {}
    /\ LET f == inflight[p].arg[1]
           r == signup_insert(Db, f[1], f[2], f[3], inflight[p].arg[2])
       IN  /\ inflight' = [inflight EXCEPT ![p] =
                              [@ EXCEPT !.op = "signup_insert", !.step = "done",
                                        !.outcome = r.outcome]]
           /\ Apply(r, "signup_insert")

Tick ==
    /\ now < MaxTime
    /\ now' = now + 1
    /\ last' = Response("tick", "none", 0, NoToken, FALSE)
    /\ UNCHANGED <<backend, users, sessions, userSeq, sessSeq, issued, vlog, outbox,
                   inflight, messages, idSeq, saltSeq>>

\* A day passes.
Day ==
    /\ now <= MaxTime
    /\ now' = now + HoursPerDay
    /\ last' = Response("day", "none", 0, NoToken, FALSE)
    /\ UNCHANGED <<backend, users, sessions, userSeq, sessSeq, issued, vlog, outbox,
                   inflight, messages, idSeq, saltSeq>>

\* The request handlers.
Next ==
    \/ \E f \in SignupForms, ok \in BOOLEAN : Signup(f[1], f[2], f[3], f[4], ok)
    \/ \E t \in Tokens : VerifyEmail(t)
    \/ \E i \in IdentInputs, p \in LoginPasswords, r \in BOOLEAN : Login(i, p, r)
    \/ \E c \in CookieInputs : Logout(c)
    \/ \E e \in EmailInputs, ok \in BOOLEAN : ForgotPassword(e, ok)
    \/ \E t \in Tokens, f \in ResetForms : ResetPassword(t, f[1], f[2])
    \/ \E c \in CookieInputs : GetCurrentUser(c)
    \/ \E c \in CookieInputs : CurrentUserId(c)
    \/ Tick

\* Sessions: the store's session methods called directly, and the handlers
\* that read or delete sessions.
NextSessions ==
    \/ \E a \in WideAccounts : DbCreateUser(a[1], a[2], PwStrong, NoToken)
    \/ \E u \in UserIds, t \in Tokens, x \in Times, r \in BOOLEAN :
          DbCreateSession(u, t, x, r)
    \/ \E t \in Tokens : DbGetSession(t)
    \/ \E t \in Tokens : DbDeleteSession(t)
    \/ \E u \in UserIds : DbDeleteUserSessions(u)
    \/ \E c \in CookieInputs : GetCurrentUser(c)
    \/ \E c \in CookieInputs : CurrentUserId(c)
    \/ \E c \in CookieInputs : Logout(c)
    \/ Tick

\* Revocation: logout, the reset handler, and the two store methods the
\* reset calls, against users, reset tokens and sessions set up through the store.
NextRevocation ==
    \/ \E a \in Accounts : DbCreateUser(a[1], a[2], PwStrong, NoToken)
    \/ \E u \in UserIds, t \in Tokens : DbCreateSession(u, t, MaxTime, FALSE)
    \/ \E u \in UserIds, t \in Tokens : DbSetResetToken(u, t, now + ResetHours)
    \/ \E u \in UserIds : DbUpdatePassword(u, PwOther)
    \/ \E u \in UserIds : DbDeleteUserSessions(u)
    \/ \E c \in CookieInputs : Logout(c)
    \/ \E t \in Tokens : ResetPassword(t, PwOther, PwOther)
SpecRevocation == Init /\ [][NextRevocation]_vars

\* Accounts: the store's user methods called directly, and the handlers
\* that read or change users.
NextAccounts ==
    \/ \E a \in Accounts, t \in Tokens : DbCreateUser(a[1], a[2], PwStrong, t)
    \/ \E u \in UserIds : DbVerifyEmail(u)
    \/ \E u \in UserIds, t \in Tokens : DbSetResetToken(u, t, now + ResetHours)
    \/ \E u \in UserIds : DbUpdatePassword(u, PwOther)
    \/ \E t \in Tokens : VerifyEmail(t)
    \/ \E i \in IdentInputs, p \in LoginPasswords, r \in BOOLEAN : Login(i, p, r)
    \/ \E e \in EmailInputs, ok \in BOOLEAN : ForgotPassword(e, ok)
    \/ \E t \in Tokens, f \in ResetForms : ResetPassword(t, f[1], f[2])
    \/ Tick

\* POST /auth/reset-password/<token> as one of two requests served at the
\* same time.  The request records the holders of the token that its SELECT
\* (get_user_by_reset_token) reads, and its answer.
ResetRequest(p, token, password, confirm_password) ==
    /\ token \in Tokens
    /\ inflight[p].step = "done"
    /\ LET r == reset_password(Db, token, password, confirm_password)
       IN  /\ inflight' = [inflight EXCEPT ![p] =
                              Request("reset_password", "done", token,
                                      {u \in users : u.reset_token = token},
                                      FALSE, r.outcome)]
           /\ Apply(r, "reset_request")

\* Requests for a reset link and resets, against accounts and earlier reset
\* tokens set up through the store.
NextForgot ==
    \/ \E a \in Accounts : DbCreateUser(a[1], a[2], PwStrong, NoToken)
    \/ \E u \in UserIds, t \in Tokens : DbSetResetToken(u, t, now + ResetHours)
    \/ \E e \in EmailInputs, ok \in BOOLEAN : ForgotPassword(e, ok)
    \/ \E t \in Tokens, f \in ResetForms : ResetPassword(t, f[1], f[2])
    \/ Tick
SpecForgot == Init /\ [][NextForgot]_vars

\* Two reset requests against accounts and reset tokens set up through the store.
NextResetRace ==
    \/ \E a \in Accounts : DbCreateUser(a[1], a[2], PwStrong, NoToken)
    \/ \E u \in UserIds, t \in Tokens : DbSetResetToken(u, t, now + ResetHours)
    \/ \E p \in Procs, t \in Tokens, f \in ResetForms : ResetRequest(p, t, f[1], f[2])
    \/ Tick
SpecResetRace == Init /\ [][NextResetRace]_vars

\* Password reset: users, reset tokens and sessions set up through the
\* store, and the handlers of the reset and of session resolution.
NextReset ==
    \/ \E a \in Accounts : DbCreateUser(a[1], a[2], PwStrong, NoToken)
    \/ \E u \in UserIds, t \in Tokens : DbSetResetToken(u, t, now + ResetHours)
    \/ \E u \in UserIds, t \in Tokens, x \in Times : DbCreateSession(u, t, x, FALSE)
    \/ \E t \in Tokens, f \in ResetForms : ResetPassword(t, f[1], f[2])
    \/ \E t \in Tokens : ResetPasswordPage(t)
    \/ \E c \in CookieInputs : GetCurrentUser(c)
    \/ Tick

\* The application as deployed: any sequence of requests.
Spec == Init /\ [][Next]_vars
\* A client of the store (AuthDatabaseInterface) beside the handlers.
SpecSessions == Init /\ [][NextSessions]_vars
SpecAccounts == Init /\ [][NextAccounts]_vars
SpecReset == Init /\ [][NextReset]_vars

\* The protected routes, with and without a reachable database.
NextGate ==
    \/ \E a \in Accounts : DbCreateUser(a[1], a[2], PwStrong, NoToken)
    \/ \E u \in UserIds : DbVerifyEmail(u)
    \/ \E u \in UserIds, t \in Tokens, x \in Times : DbCreateSession(u, t, x, FALSE)
    \/ \E c \in CookieInputs, api \in BOOLEAN : LoginRequired(c, api)
    \/ \E c \in CookieInputs : ApiMessages(c)
    \/ \E c \in CookieInputs : Admin(c)
    \/ \E c \in CookieInputs : GetCurrentUserStorageDown(c)
    \/ \E c \in CookieInputs : CurrentUserIdStorageDown(c)
    \/ \E c \in CookieInputs : ApiMessagesStorageDown(c)
    \/ \E i \in IdentInputs, p \in LoginPasswords : LoginStorageDown(i, p)
    \/ Tick

SpecGate == Init /\ [][NextGate]_vars

\* The life of a session: issued by a login, read, revoked, expired.
NextLifecycle ==
    \/ \E a \in Accounts : DbCreateUser(a[1], a[2], PwStrong, NoToken)
    \/ \E u \in UserIds : DbVerifyEmail(u)
    \/ \E u \in UserIds, r \in BOOLEAN : DbIssueSession(u, r)
    \/ \E t \in Tokens : DbGetSession(t)
    \/ \E u \in UserIds : DbDeleteUserSessions(u)
    \/ \E c \in CookieInputs : GetCurrentUser(c)
    \/ \E c \in CookieInputs : CurrentUserId(c)
    \/ \E c \in CookieInputs : Logout(c)
    \/ Tick
    \/ Day

SpecLifecycle == Init /\ [][NextLifecycle]_vars

\* Two readers of sessions served at the same time.
NextReaders ==
    \/ \E a \in Accounts : DbCreateUser(a[1], a[2], PwStrong, NoToken)
    \/ \E u \in UserIds, t \in Tokens, x \in Times : DbCreateSession(u, t, x, FALSE)
    \/ \E p \in Procs, t \in Tokens : GetSessionSelect(p, t)
    \/ \E p \in Procs, t \in Tokens : CurrentUserIdSelect(p, t)
    \/ \E p \in Procs : ExpiredDelete(p)
    \/ Tick

SpecReaders == Init /\ [][NextReaders]_vars

\* Two sign-ups served at the same time.
NextSignups ==
    \/ \E p \in Procs, f \in RaceForms, ok \in BOOLEAN : SignupCheck(p, f, ok)
    \/ \E p \in Procs : SignupCheckUsername(p)
    \/ \E p \in Procs : SignupInsert(p)
    \/ \E t \in Tokens : VerifyEmail(t)

SpecSignups == Init /\ [][NextSignups]_vars

(***************************************************************************)
(* Properties.                                                             *)
(***************************************************************************)
\* The identifier of a login as the handler looks it up.
Ident(i) == Lower(Strip(i))
\* The users a login's identifier names: by email, else by user name.
Named(i) ==
    IF \E u \in users : u.email = Ident(i) THEN {u \in users : u.email = Ident(i)}
    ELSE {u \in users : u.username = Ident(i)}
\* The session rows whose user row exists (what get_session's JOIN finds).
Joined(c) == {s \in sessions : s.session_token = c /\ \E u \in users : u.id = s.user_id}

\* C1: no session is owned by an unverified user, and a login with the
\* correct password of a registered, unverified user is answered
\* EmailNotVerified, creates no session and sets no cookie.
C1_NoSessionForUnverified ==
    /\ [](\A s \in sessions : \A u \in users : u.id = s.user_id => u.email_verified)
    /\ [][\A i \in IdentInputs, p \in LoginPasswords, r \in BOOLEAN :
            (/\ Login(i, p, r)
             /\ \E u \in Named(i) : ~u.email_verified /\ verify_password(p, u.password_hash))
            => (/\ last'.outcome = "EmailNotVerified"
                /\ sessions' = sessions
                /\ last'.cookie = NoToken)]_vars

\* C2: after reset_password with an unexpired reset token and an acceptable
\* new password, the holder of the token has no session left, and each of
\* the holder's earlier session tokens resolves to None.
C2_ResetPurgesSessions ==
    [][\A t \in Tokens, f \in ResetForms :
        (/\ ResetPassword(t, f[1], f[2])
         /\ validate_password(f[1]) = "ok" /\ f[1] = f[2]
         /\ \E u \in users : u.reset_token = t /\ now < u.reset_token_expires)
        => \A u \in users : (u.reset_token = t /\ now < u.reset_token_expires) =>
              /\ last'.outcome = "Reset"
              /\ \A s \in sessions : s.user_id = u.id =>
                    (get_current_user(Db, s.session_token).outcome = "Anonymous")']_vars

\* C3: resolve_session of a present, unexpired session token returns the
\* session's owner: the user whose id is the row's user_id.
C3_ResolveReturnsOwner ==
    [][\A c \in Tokens :
        (GetCurrentUser(c) /\ \E s \in Joined(c) : now < s.expires_at)
        => \A s \in Joined(c) : last'.outcome = "User" /\ last'.uid = s.user_id]_vars

\* C4: resolve_session returns None for an absent, an unknown and an
\* expired token (expires_at at or before now); an expired row it finds is
\* gone afterwards, and the lookup of an unexpired session deletes nothing.
C4_ResolveNoneAndLazyPurge ==
    [][\A c \in CookieInputs :
        GetCurrentUser(c) =>
            /\ (c = NoToken \/ Joined(c) = {}) =>
                  last'.outcome = "Anonymous" /\ sessions' = sessions
            /\ \A s \in Joined(c) :
                  /\ s.expires_at <= now =>
                        last'.outcome = "Anonymous" /\ sessions' = sessions \ {s}
                  /\ now < s.expires_at => sessions' = sessions]_vars

\* C5: a session whose expires_at equals the current time is expired: both
\* the store's lookup and the API's lookup return None for it and delete it.
C5_BoundaryIsExpired ==
    [][\A c \in Tokens :
        ((DbGetSession(c) \/ CurrentUserId(c)) /\ \E s \in Joined(c) : s.expires_at = now)
        => /\ last'.outcome \in {"None", "Anonymous"}
           /\ \A s \in sessions' : s.session_token # c]_vars

\* C6: logout deletes the session row of the cookie's token, if there is
\* one, and nothing else; the token then resolves to None; without a token,
\* or with a token no row has, logout raises no error and changes nothing.
C6_LogoutDeletesAndIsIdempotent ==
    [][\A c \in CookieInputs :
        Logout(c) =>
            /\ last'.outcome = "LoggedOut"
            /\ sessions' = {s \in sessions : s.session_token # c}
            /\ UNCHANGED <<users, userSeq, sessSeq, issued, outbox>>
            /\ c # NoToken => (get_current_user(Db, c).outcome = "Anonymous")'
            /\ (c = NoToken \/ \A s \in sessions : s.session_token # c)
                  => ~last'.changed /\ sessions' = sessions]_vars

\* A logout has deleted the session of its cookie while another session stays.
C6_Witness ==
    last.op = "logout" /\ last.changed /\ last.outcome = "LoggedOut" /\ sessions # {}

\* C7: a login whose identifier names no user, or names a user (verified or
\* not) whose password does not match, is answered InvalidCredentials and
\* creates no session.
C7_InvalidCredentialsUniform ==
    [][\A i \in IdentInputs, p \in LoginPasswords, r \in BOOLEAN :
        (/\ Login(i, p, r)
         /\ Ident(i) # <<>> /\ p # <<>>
         /\ \A u \in Named(i) : ~verify_password(p, u.password_hash))
        => last'.outcome = "InvalidCredentials" /\ sessions' = sessions]_vars

\* A sign-up form that passes every validation rule.
WellFormed(f) ==
    /\ Len(Strip(f[1])) >= 3
    /\ validate_email(Lower(Strip(f[2])))
    /\ validate_password(f[3]) = "ok"
    /\ f[3] = f[4]

\* C8: a register call with a well-formed, unregistered email, a strong
\* password with matching confirmation and an unused user name persists
\* exactly one new user, unverified and with a verification token, returns
\* it, and sends the verification email with that token.
C8_RegisterCreatesUser ==
    [][\A f \in SignupForms, ok \in BOOLEAN :
        (/\ Signup(f[1], f[2], f[3], f[4], ok)
         /\ WellFormed(f)
         /\ \A u \in users : u.email # Lower(Strip(f[2])) /\ u.username # Strip(f[1]))
        => /\ last'.outcome \in {"Created", "CreatedNoEmail"}
           /\ \E n \in users' :
                 /\ users' = users \cup {n}
                 /\ n \notin users
                 /\ n.email = Lower(Strip(f[2]))
                 /\ ~n.email_verified
                 /\ n.verification_token # NoToken
                 /\ last'.uid = n.id
                 /\ ok => [kind |-> "verification", to |-> n.email,
                           token |-> n.verification_token] \in outbox']_vars

\* C9: verify_email with the token a verified user was created with is
\* answered AlreadyVerified and changes no user.
C9_SecondVerifyAlreadyVerified ==
    [][\A t \in Tokens :
        (/\ VerifyEmail(t)
         /\ \E u \in users : u.email_verified /\ <<u.id, t>> \in vlog
         /\ \A u \in users : u.verification_token # t)
        => last'.outcome = "AlreadyVerified" /\ users' = users]_vars

\* C10: no two users share an email, ignoring case; emails are stored
\* lower-cased; a register call, well-formed otherwise, whose email equals
\* an existing user's ignoring case is answered DuplicateEmail and creates
\* no user.
C10_EmailUniqueAndDuplicateRejected ==
    /\ [](\A u \in users : \A v \in users :
             (Lower(u.email) = Lower(v.email) => u = v) /\ u.email = Lower(u.email))
    /\ [][\A f \in SignupForms, ok \in BOOLEAN :
            (/\ Signup(f[1], f[2], f[3], f[4], ok)
             /\ WellFormed(f)
             /\ \E u \in users : Lower(u.email) = Lower(Strip(f[2])))
            => last'.outcome = "DuplicateEmail" /\ users' = users]_vars

\* C11: a login that succeeds (a verified user, the right password) creates
\* exactly one session, bound to that user's id, whose expires_at is the
\* login time plus 30 days with remember-me and plus 1 day without, and is
\* later than the login time.
C11_SessionExpiryOnLogin ==
    [][\A i \in IdentInputs, p \in LoginPasswords, r \in BOOLEAN :
        (/\ Login(i, p, r)
         /\ \E u \in Named(i) : u.email_verified /\ verify_password(p, u.password_hash))
        => \A u \in Named(i) :
              /\ last'.outcome = "LoggedIn"
              /\ \E s \in sessions' \ sessions :
                    /\ sessions' = sessions \cup {s}
                    /\ s.user_id = u.id
                    /\ s.expires_at =
                          now + (IF r THEN RememberDays ELSE SessionDays) * HoursPerDay
                    /\ s.expires_at > now]_vars

\* The users holding reset token t, and those of them whose token is live.
Holders(t) == {u \in users : u.reset_token = t}
LiveHolders(t) == {u \in Holders(t) : now < u.reset_token_expires}

\* C12: reset_password with a token no user holds, or whose holder's
\* reset_token_expires is at or before now, is answered InvalidOrExpired and
\* changes no user (hash, reset token fields) and no session.
C12_ResetInvalidOrExpired ==
    [][\A t \in Tokens, f \in ResetForms :
        (ResetPassword(t, f[1], f[2]) /\ LiveHolders(t) = {})
        => /\ last'.outcome = "InvalidOrExpired"
           /\ users' = users
           /\ sessions' = sessions]_vars

\* C13: a reset_password that succeeds stores the hash of the new password
\* and clears reset_token and reset_token_expires; afterwards the same token
\* is InvalidOrExpired for reset_password and for the reset page, and a
\* login is accepted with the new password and refused with any other.
C13_ResetTokenSingleUse ==
    [][\A t \in Tokens, f \in ResetForms :
        (/\ ResetPassword(t, f[1], f[2])
         /\ LiveHolders(t) # {}
         /\ validate_password(f[1]) = "ok" /\ f[1] = f[2])
        => \A u \in LiveHolders(t) :
              /\ last'.outcome = "Reset"
              /\ \E v \in users' :
                    /\ v = [u EXCEPT !.password_hash = hash_password(f[1], gensalt(Db)),
                                     !.reset_token = NoToken,
                                     !.reset_token_expires = NoTime]
                    /\ users' = (users \ {u}) \cup {v}
              /\ (reset_password(Db, t, f[1], f[2]).outcome = "InvalidOrExpired")'
              /\ (reset_password_page(Db, t).outcome = "InvalidOrExpired")'
              /\ (login(Db, u.email, f[1], FALSE).outcome
                     \in {"LoggedIn", "EmailNotVerified"})'
              /\ \A p \in LoginPasswords \ {f[1]} :
                    (login(Db, u.email, p, FALSE).outcome
                        \in {"InvalidCredentials", "MissingField"})']_vars

\* C14: reset_password with a live token and a new password that fails the
\* strength rule, or a confirmation that differs, is refused (WeakPassword,
\* PasswordMismatch) and changes no user and no session; the token is still
\* accepted afterwards with a strong password.
C14_WeakResetChangesNothing ==
    [][\A t \in Tokens, f \in ResetForms :
        (/\ ResetPassword(t, f[1], f[2])
         /\ LiveHolders(t) # {}
         /\ (validate_password(f[1]) # "ok" \/ f[1] # f[2]))
        => /\ last'.outcome =
                 (IF validate_password(f[1]) # "ok" THEN "WeakPassword" ELSE "PasswordMismatch")
           /\ users' = users
           /\ sessions' = sessions
           /\ (reset_password(Db, t, PwStrong, PwStrong).outcome = "Reset")']_vars

\* The users registered under the email a forgot-password form names.
Registered(e) == {u \in users : u.email = Ident(e)}
\* The store as it would be were that email not registered.
Unregistered(d, e) == [d EXCEPT !.users = {u \in @ : u.email # Ident(e)}]

\* C15: request_password_reset for the email of a user gives that user a
\* fresh reset_token with reset_token_expires one hour after the request and
\* sends the reset email carrying the token; for an email of no user it
\* changes nothing stored and sends no email.
C15_ResetRequestSetsToken ==
    [][\A e \in EmailInputs, ok \in BOOLEAN :
        (ForgotPassword(e, ok) /\ Ident(e) # <<>>)
        => /\ \A u \in Registered(e) :
                 \E t \in Tokens \ issued :
                    /\ users' = (users \ {u}) \cup
                                  {[u EXCEPT !.reset_token = t,
                                             !.reset_token_expires = now + ResetHours]}
                    /\ ok => [kind |-> "reset", to |-> u.email, token |-> t] \in outbox'
           /\ Registered(e) = {} =>
                 /\ UNCHANGED <<users, sessions, outbox>>
                 /\ ~last'.changed]_vars

\* C16: the response to request_password_reset for a registered email is the
\* response the same request gets when that email is not registered,
\* whether or not the email send succeeds.
C16_ResetRequestUniform ==
    [][\A e \in EmailInputs, ok \in BOOLEAN :
        ForgotPassword(e, ok)
        => last'.outcome = forgot_password(Unregistered(Db, e), e, ok).outcome]_vars

\* The caller whose cookie resolve_session answers with None.
Anon(c) == c = NoToken \/ get_current_user(Db, c).outcome = "Anonymous"

\* C17: a route that requires authentication answers an anonymous caller
\* (resolve_session yields None) with 403 when its path is under /api/ and
\* with a redirect to the login page otherwise, and never runs its handler
\* for that caller.
C17_GateRejectsAnonymous ==
    [][\A c \in CookieInputs :
        Anon(c) =>
           /\ \A api \in BOOLEAN :
                 LoginRequired(c, api) =>
                    last'.outcome = (IF api THEN "Forbidden403" ELSE "RedirectLogin")
           /\ ApiMessages(c) => last'.outcome = "Forbidden403"
           /\ Admin(c) => last'.outcome = "RedirectLogin"]_vars

\* The outcomes that report a failure to the caller.
ErrorOutcomes == {"Error", "Error500"}

\* C18: an operation that cannot reach the database reports an error to its
\* caller, never an anonymous caller, an empty result or a success, and
\* leaves the store as it was.
C18_StorageFailurePropagates ==
    [][/\ \A c \in Tokens :
            /\ GetCurrentUserStorageDown(c) => last'.outcome \in ErrorOutcomes
            /\ backend = "postgres" =>
                  /\ CurrentUserIdStorageDown(c) => last'.outcome \in ErrorOutcomes
                  /\ ApiMessagesStorageDown(c) => last'.outcome \in ErrorOutcomes
       /\ \A i \in IdentInputs, p \in LoginPasswords :
            (LoginStorageDown(i, p) /\ Ident(i) # <<>> /\ p # <<>>)
               => last'.outcome \in ErrorOutcomes /\ ~last'.changed]_vars

\* C19: a failed email send undoes nothing: after a register call whose
\* verification email fails, the new user and its verification token are
\* stored and verify_email with the token is answered Verified; after a
\* request_password_reset whose email fails, the user's reset_token and
\* reset_token_expires are set.
C19_EmailFailureKeepsCreation ==
    [][/\ \A f \in SignupForms :
            (/\ Signup(f[1], f[2], f[3], f[4], FALSE)
             /\ WellFormed(f)
             /\ \A u \in users : u.email # Lower(Strip(f[2])) /\ u.username # Strip(f[1]))
            => \E n \in users' \ users :
                  /\ n.email = Lower(Strip(f[2]))
                  /\ n.verification_token # NoToken
                  /\ (verify_email_route(Db, n.verification_token).outcome = "Verified")'
       /\ \A e \in EmailInputs :
            ForgotPassword(e, FALSE)
            => \A u \in Registered(e) :
                  \E v \in users' :
                     /\ v.id = u.id
                     /\ v.reset_token \in Tokens \ issued
                     /\ v.reset_token_expires = now + ResetHours]_vars

C21_DeadSessionStaysDead ==
    [][\A c \in issued :
        /\ get_current_user(Db, c).outcome = "Anonymous"
              => (get_current_user(Db, c).outcome = "Anonymous")'
        /\ current_user_id(Db, c).outcome = "Anonymous"
              => (current_user_id(Db, c).outcome = "Anonymous")'
        /\ \A s \in sessions : \A t \in sessions' :
              t.session_token = s.session_token => t = s]_vars

\* A session was issued and then revoked by logout, and another session is live.
C21_Witness ==
    /\ last.op = "logout" /\ last.changed
    /\ \E c \in issued : get_current_user(Db, c).outcome = "Anonymous"
    /\ sessions # {}

\* C22: in every reachable state every user has reset_token and
\* reset_token_expires both null or both set.
C22_ResetFieldsPaired ==
    \A u \in users : (u.reset_token = NoToken) <=> (u.reset_token_expires = NoTime)

\* A password was changed for a user who held a reset token, while another
\* user still holds one.
C22_Witness ==
    /\ last.op = "db_update_password" /\ last.changed
    /\ \E u \in users : u.reset_token = NoToken /\ verify_password(PwOther, u.password_hash)
    /\ \E u \in users : u.reset_token # NoToken /\ u.reset_token_expires # NoTime

\* C23: a login that succeeds adds exactly one session row and leaves every
\* session there was as it was, so that the user's earlier tokens still
\* resolve to the user afterwards.
C23_LoginAddsOneSession ==
    [][\A i \in IdentInputs, p \in LoginPasswords, r \in BOOLEAN :
        (/\ Login(i, p, r)
         /\ \E u \in Named(i) : u.email_verified /\ verify_password(p, u.password_hash))
        => \A u \in Named(i) :
              /\ sessions \subseteq sessions'
              /\ Cardinality(sessions') = Cardinality(sessions) + 1
              /\ \A s \in sessions' :
                    (s.user_id = u.id /\ now < s.expires_at) =>
                       /\ (get_current_user(Db, s.session_token).outcome = "User")'
                       /\ (get_current_user(Db, s.session_token).uid = u.id)']_vars

C25_ExpiryDeleteAtomic ==
    \A p \in Procs : \A q \in Procs \ {p} :
        ~(/\ inflight[p].saw # {}
          /\ inflight[p].saw = inflight[q].saw
          /\ inflight[p].step = "expired" \/ inflight[p].deleted
          /\ inflight[q].step = "expired" \/ inflight[q].deleted)

\* The email a sign-up in flight would register.
SignupEmail(p) == Lower(Strip(inflight[p].arg[1][2]))

\* C26: however two concurrent sign-ups for one email interleave, at most
\* one user holds that email afterwards, and the sign-up that inserts
\* second creates no user and sends no verification email.
C26_ConcurrentSignupOneUser ==
    [][/\ \A u \in users' : \A v \in users' : u.email = v.email => u = v
       /\ \A p \in Procs :
            (SignupInsert(p) /\ \E u \in users : u.email = SignupEmail(p))
            => /\ users' = users
               /\ outbox' = outbox
               /\ last'.outcome = "Error"]_vars

\* Both sign-ups passed their checks for the same email before either
\* inserted; both have inserted, and one user holds the email.
C26_Witness ==
    /\ \A p \in Procs : inflight[p].op = "signup_insert" /\ inflight[p].step = "done"
    /\ SignupEmail("A") = SignupEmail("B")
    /\ Cardinality({u \in users : u.email = SignupEmail("A")}) = 1

(***************************************************************************)
(* The password strength rule on its own.                                  *)
(***************************************************************************)
\* Candidate passwords: eight letters followed by up to MaxPwTail characters
\* drawn from a letter, an ASCII digit, a digit of another script, two
\* characters of the rule's class and two punctuation characters outside it.
MaxPwTail == 3
PwBase == <<"a","b","c","d","e","f","g","h">>
\* Char(1635) is U+0663, ARABIC-INDIC DIGIT THREE.
PwTailChars == {"x", "1", "!", "?", "-", "_", Char(1635)}
PwTails == UNION {[1..n -> PwTailChars] : n \in 0..MaxPwTail}
PasswordInputs == {PwBase \o t : t \in PwTails}

\* A call of User.validate_password on one candidate.
InitPassword ==
    /\ backend \in {"sqlite", "postgres"}
    /\ users = {}
    /\ sessions = {}
    /\ userSeq = 0
    /\ sessSeq = 0
    /\ now = 0
    /\ issued = {}
    /\ vlog = {}
    /\ outbox = {}
    /\ last = Response("init", "none", 0, NoToken, FALSE)
    /\ \E pw \in PasswordInputs :
          inflight = [p \in Procs |->
                        IF p = "A"
                        THEN Request("validate_password", "start", pw, {}, FALSE, "none")
                        ELSE Idle]
    /\ messages = {}
    /\ idSeq = 0
    /\ saltSeq = 0

ValidatePassword(p) ==
    /\ inflight[p].op = "validate_password"
    /\ inflight[p].step = "start"
    /\ inflight' = [inflight EXCEPT ![p] =
                       [@ EXCEPT !.step = "done",
                                 !.outcome = validate_password(inflight[p].arg)]]
    /\ UNCHANGED <<backend, users, sessions, userSeq, sessSeq, now, issued, vlog,
                   outbox, last, messages, idSeq, saltSeq>>

NextPassword == \E p \in Procs : ValidatePassword(p)
SpecPassword == InitPassword /\ [][NextPassword]_vars

\* The password checks that have returned.
Validated == {p \in Procs : inflight[p].op = "validate_password" /\ inflight[p].step = "done"}
HasAny(pw, chars) == \E i \in 1..Len(pw) : pw[i] \in chars
\* A digit is a decimal digit of any script.
HasDigit(pw) == HasAny(pw, Digits)

\* The ASCII punctuation and symbol characters (the backslash and the two quote marks left out).
PunctuationOrSymbol ==
    {"!", "\"", "#", "$", "%", "&", "(", ")", "*", "+", ",", "-", ".", "/",
     ":", ";", "<", "=", ">", "?", "@", "[", "]", "^", "_", "{", "|",
     "}", "~"}
\* The twenty characters the rule's character class lists.
ListedSpecials ==
    {"!", "@", "#", "$", "%", "^", "&", "*", "(", ")", ",", ".", "?", "\"", ":",
     "{", "}", "|", "<", ">"}

\* C27 as stated: a password is accepted exactly when it has at least ten
\* characters, a digit, and a punctuation or symbol character, any such
\* character satisfying the third condition.
C27_AnySymbolAccepted ==
    \A p \in Validated :
        (inflight[p].outcome = "ok")
            <=> /\ Len(inflight[p].arg) >= 10
                /\ HasDigit(inflight[p].arg)
                /\ HasAny(inflight[p].arg, PunctuationOrSymbol)

\* C27 amended: a password is accepted exactly when it has at least ten
\* characters, a digit, and one of the characters ! @ # $ % ^ & * ( ) , . ?
\* " : { } | < >; other punctuation does not satisfy the third condition.
C27_PasswordRule ==
    \A p \in Validated :
        (inflight[p].outcome = "ok")
            <=> /\ Len(inflight[p].arg) >= 10
                /\ HasDigit(inflight[p].arg)
                /\ HasAny(inflight[p].arg, ListedSpecials)

\* A ten-character password with a digit and a listed character, accepted.
C27_Witness ==
    \E p \in Validated :
        /\ Len(inflight[p].arg) = 10
        /\ HasDigit(inflight[p].arg)
        /\ HasAny(inflight[p].arg, ListedSpecials)
        /\ inflight[p].outcome = "ok"

(***************************************************************************)
(* The reminders API and the chat-assistant tool.                          *)
(***************************************************************************)
MaxMessages == 2
NoMinutes == -1
NoId == 0
NoExpiry == -1
MinutesPerHour == 60

\* The reply of a reminders request: the store and the messages after it,
\* the HTTP status, the caller it resolved, and the id of the message made.
MsgOut(d, msgs, status, uid, mid) ==
    [db |-> d, messages |-> msgs, status |-> status, uid |-> uid, mid |-> mid,
     idSeq |-> idSeq]

\* ReminderApp.generate_id: the clock's milliseconds in hex followed by ten
\* random characters.  It reads nothing of the stored messages; the number
\* stands for the text of the call with that rank, and two calls are taken
\* never to give the same text.
generate_id == idSeq + 1

\* Message.create followed by PostgresDatabase.add_message_for_user's row.
Message(message_id, text, expiry_time, owner_user_id) ==
    [id |-> message_id, text |-> text, timestamp |-> now, expiry_time |-> expiry_time,
     owner_user_id |-> owner_user_id]

\* An add_message whose duration test is written >= 0.
add_message_zero_expires(d, msgs, cookie, text_in, expiry_duration_minutes) ==
    LET who == current_user_id(d, cookie)
        text == Strip(text_in)
        expiry_time == IF expiry_duration_minutes # NoMinutes /\ expiry_duration_minutes >= 0
                       THEN now * MinutesPerHour + expiry_duration_minutes
                       ELSE NoExpiry
        message == Message(generate_id, text, expiry_time, who.uid)
        fk == \E u \in who.db.users : u.id = who.uid
    IN  IF who.outcome = "Anonymous" THEN MsgOut(who.db, msgs, "Unauthorized401", 0, NoId)
        ELSE IF text = <<>> THEN MsgOut(who.db, msgs, "BadRequest400", who.uid, NoId)
        ELSE IF ~ fk
             THEN [MsgOut(who.db, msgs, "Error500", who.uid, NoId) EXCEPT !.idSeq = message.id]
        ELSE [MsgOut(who.db, msgs \cup {message}, "Created201", who.uid, message.id)
                 EXCEPT !.idSeq = message.id]

\* ReminderApp.add_message: POST /api/messages with the session cookie, the
\* text and expiry_duration_minutes (NoMinutes when the body leaves it out).
add_message(d, msgs, cookie, text_in, expiry_duration_minutes) ==
    LET who == current_user_id(d, cookie)
        text == Strip(text_in)
        expiry_time == IF expiry_duration_minutes # NoMinutes /\ expiry_duration_minutes > 0
                       THEN now * MinutesPerHour + expiry_duration_minutes
                       ELSE NoExpiry
        message == Message(generate_id, text, expiry_time, who.uid)
        fk == \E u \in who.db.users : u.id = who.uid
    IN  IF who.outcome = "Anonymous" THEN MsgOut(who.db, msgs, "Unauthorized401", 0, NoId)
        ELSE IF text = <<>> THEN MsgOut(who.db, msgs, "BadRequest400", who.uid, NoId)
        ELSE IF ~ fk
             THEN [MsgOut(who.db, msgs, "Error500", who.uid, NoId) EXCEPT !.idSeq = message.id]
        ELSE [MsgOut(who.db, msgs \cup {message}, "Created201", who.uid, message.id)
                 EXCEPT !.idSeq = message.id]

\* send_message_to_grandad (the assistant's tool): the POST it sends carries
\* the JSON body {"text": message} and no cookie; reachable: whether the
\* connection to the application succeeds.
send_message_to_grandad(d, msgs, message, reachable) ==
    LET response == add_message(d, msgs, NoToken, message, NoMinutes)
    IN  IF ~ reachable THEN MsgOut(d, msgs, "CouldNotConnect", 0, NoId)
        ELSE IF response.status = "Created201"
             THEN [response EXCEPT !.status = "Sent"]
        ELSE [response EXCEPT !.status = "Failed" \o response.status]

MessageTexts == {<<"h","i">>, <<" ">>, <<>>}
MinuteInputs == {NoMinutes, -5, 0, 30}

\* Message.to_dict: the message as the API returns it.
to_dict(m) == [id |-> m.id, text |-> m.text, timestamp |-> m.timestamp,
               expiry_time |-> m.expiry_time]

\* A SELECT that leaves out the owner condition of its WHERE clause.
get_messages_any_owner(d, msgs, cookie) ==
    LET who == current_user_id(d, cookie)
        rows == {m \in msgs : \/ m.expiry_time = NoExpiry
                              \/ m.expiry_time > now * MinutesPerHour}
    IN  IF who.outcome = "Anonymous"
        THEN [db |-> who.db, messages |-> msgs, status |-> "Unauthorized401", uid |-> 0,
              list |-> {}]
        ELSE [db |-> who.db, messages |-> msgs, status |-> "Ok200", uid |-> who.uid,
              list |-> {to_dict(m) : m \in rows}]

\* ReminderApp.get_messages: GET /api/messages.  The list is ordered by
\* timestamp; the model keeps its members.
get_messages(d, msgs, cookie) ==
    LET who == current_user_id(d, cookie)
        rows == {m \in msgs : /\ m.owner_user_id = who.uid
                              /\ \/ m.expiry_time = NoExpiry
                                 \/ m.expiry_time > now * MinutesPerHour}
    IN  IF who.outcome = "Anonymous"
        THEN [db |-> who.db, messages |-> msgs, status |-> "Unauthorized401", uid |-> 0,
              list |-> {}]
        ELSE [db |-> who.db, messages |-> msgs, status |-> "Ok200", uid |-> who.uid,
              list |-> {to_dict(m) : m \in rows}]

\* A DELETE that leaves out the owner condition of its WHERE clause.
delete_message_any_owner(d, msgs, cookie, message_id) ==
    LET who == current_user_id(d, cookie)
        rows == {m \in msgs : m.id = message_id}
    IN  IF who.outcome = "Anonymous" THEN MsgOut(who.db, msgs, "Unauthorized401", 0, NoId)
        ELSE IF rows = {} THEN MsgOut(who.db, msgs, "NotFound404", who.uid, NoId)
        ELSE MsgOut(who.db, msgs \ rows, "Ok200", who.uid, message_id)

\* ReminderApp.delete_message: DELETE /api/messages/<id>.
delete_message(d, msgs, cookie, message_id) ==
    LET who == current_user_id(d, cookie)
        rows == {m \in msgs : m.id = message_id /\ m.owner_user_id = who.uid}
    IN  IF who.outcome = "Anonymous" THEN MsgOut(who.db, msgs, "Unauthorized401", 0, NoId)
        ELSE IF rows = {} THEN MsgOut(who.db, msgs, "NotFound404", who.uid, NoId)
        ELSE MsgOut(who.db, msgs \ rows, "Ok200", who.uid, message_id)

\* The store and the messages after a reminders request, and its response.
ApplyMessage(r, op) ==
    /\ users' = r.db.users
    /\ sessions' = r.db.sessions
    /\ userSeq' = r.db.userSeq
    /\ sessSeq' = r.db.sessSeq
    /\ messages' = r.messages
    /\ idSeq' = r.idSeq
    /\ last' = Response(op, r.status, r.uid, NoToken, Store(r.db) # Store(Db) \/ r.messages # messages)
                  @@ [mid |-> r.mid]
    /\ UNCHANGED <<backend, now, issued, vlog, outbox, inflight, saltSeq>>

AddMessage(cookie, text, minutes) ==
    /\ cookie \in CookieInputs
    /\ idSeq < MaxMessages
    /\ ApplyMessage(add_message(Db, messages, cookie, text, minutes), "add_message")

GetMessages(cookie) ==
    /\ cookie \in CookieInputs
    /\ LET r == get_messages(Db, messages, cookie)
       IN  /\ users' = r.db.users
           /\ sessions' = r.db.sessions
           /\ userSeq' = r.db.userSeq
           /\ sessSeq' = r.db.sessSeq
           /\ last' = Response("get_messages", r.status, r.uid, NoToken,
                               Store(r.db) # Store(Db))
                         @@ [list |-> r.list]
           /\ UNCHANGED <<backend, now, issued, vlog, outbox, inflight, messages, idSeq, saltSeq>>

DeleteMessage(cookie, message_id) ==
    /\ cookie \in CookieInputs
    /\ ApplyMessage(delete_message(Db, messages, cookie, message_id), "delete_message")

SendMessageToGrandad(message, reachable) ==
    /\ idSeq < MaxMessages
    /\ ApplyMessage(send_message_to_grandad(Db, messages, message, reachable),
                    "send_message_to_grandad")

NextMessages ==
    \/ \E a \in Accounts : DbCreateUser(a[1], a[2], PwStrong, NoToken)
    \/ \E u \in UserIds, t \in Tokens, x \in Times : DbCreateSession(u, t, x, FALSE)
    \/ \E c \in CookieInputs, t \in MessageTexts, m \in MinuteInputs : AddMessage(c, t, m)
    \/ \E t \in MessageTexts, r \in BOOLEAN : SendMessageToGrandad(t, r)
    \/ \E c \in CookieInputs : GetMessages(c)
    \/ \E c \in CookieInputs, i \in 1..MaxMessages : DeleteMessage(c, i)
    \/ Tick
SpecMessages == Init /\ [][NextMessages]_vars

\* Reminders posted by users with sessions, as time passes.
NextPosting ==
    \/ \E a \in Accounts : DbCreateUser(a[1], a[2], PwStrong, NoToken)
    \/ \E u \in UserIds, t \in Tokens, x \in Times : DbCreateSession(u, t, x, FALSE)
    \/ \E c \in CookieInputs, t \in MessageTexts, m \in MinuteInputs : AddMessage(c, t, m)
    \/ Tick
SpecPosting == Init /\ [][NextPosting]_vars

\* C28: when the assistant's tool is called with a non-empty text and the
\* application and its storage are reachable, the POST is accepted, the
\* reminder is stored, and the tool reports success with the new message's id.
C28_AssistantPostsReminder ==
    [][\A t \in MessageTexts :
          (SendMessageToGrandad(t, TRUE) /\ Strip(t) # <<>> /\ backend = "postgres")
          => /\ last'.outcome = "Sent"
             /\ \E m \in messages' \ messages : m.id = last'.mid /\ m.text = Strip(t)]_vars

\* The typed rejections of signup.
Rejections ==
    {"MissingField", "UsernameTooShort", "InvalidEmail", "WeakPassword",
     "PasswordMismatch", "DuplicateEmail", "DuplicateUsername"}

\* A sign-up form that the rules reject: a missing field, or a rule of
\* WellFormed broken.
Malformed(f) ==
    \/ Strip(f[1]) = <<>> \/ Strip(f[2]) = <<>> \/ f[3] = <<>>
    \/ ~ WellFormed(f)

\* C29: a register call that is to be rejected (missing field, short user
\* name, malformed email, weak password, mismatched confirmation, email or
\* user name already taken) is answered with a rejection, leaves the users
\* as they were and sends no email.
C29_RejectedSignupChangesNothing ==
    [][\A f \in SignupForms, ok \in BOOLEAN :
        (/\ Signup(f[1], f[2], f[3], f[4], ok)
         /\ \/ Malformed(f)
            \/ \E u \in users : u.email = Lower(Strip(f[2])) \/ u.username = Strip(f[1]))
        => /\ last'.outcome \in Rejections
           /\ users' = users
           /\ outbox' = outbox]_vars

\* C31: of two reset_password requests that carry the same reset token and
\* both read it as valid, at most one replaces the password hash (answers
\* Reset) and the other is answered InvalidOrExpired.
C31_ResetTokenOnceUnderConcurrency ==
    \A p \in Procs : \A q \in Procs \ {p} :
        (/\ inflight[p].op = "reset_password" /\ inflight[q].op = "reset_password"
         /\ inflight[p].arg = inflight[q].arg
         /\ \E u \in inflight[p].saw : now < u.reset_token_expires
         /\ \E u \in inflight[q].saw : now < u.reset_token_expires)
        => /\ ~ (inflight[p].outcome = "Reset" /\ inflight[q].outcome = "Reset")
           /\ inflight[p].outcome = "InvalidOrExpired"
                 \/ inflight[q].outcome = "InvalidOrExpired"

\* C33: a user holds one usable reset token at a time: a request for a reset
\* link by a user who already holds a live reset token replaces that token,
\* and reset_password with the earlier token is then answered
\* InvalidOrExpired although its hour has not passed.
C33_NewResetRequestRetiresOldToken ==
    [][\A e \in EmailInputs, ok \in BOOLEAN :
        ForgotPassword(e, ok)
        => \A u \in Registered(e) :
              (u.reset_token # NoToken /\ now < u.reset_token_expires)
              => /\ \A v \in users' : v.id = u.id => v.reset_token # u.reset_token
                 /\ (reset_password(Db, u.reset_token, PwOther, PwOther).outcome
                        = "InvalidOrExpired")']_vars

\* The user of the session a cookie names, while that session has not expired.
SessionUsers(c) == {s.user_id : s \in {x \in sessions : x.session_token = c /\ now <= x.expires_at}}

\* C34: the list an authenticated GET /api/messages returns holds exactly the
\* stored reminders owned by the session's user whose expiry is absent or
\* later than the current time; no reminder of another user and no expired
\* reminder is in it.
C34_ListIsOwnLiveReminders ==
    [][\A c \in CookieInputs :
        (GetMessages(c) /\ backend = "postgres" /\ c # NoToken /\ SessionUsers(c) # {})
        => /\ last'.outcome = "Ok200"
           /\ \A m \in messages :
                 (to_dict(m) \in last'.list)
                    <=> /\ m.owner_user_id \in SessionUsers(c)
                        /\ m.expiry_time = NoExpiry
                              \/ m.expiry_time > now * MinutesPerHour
           /\ \A e \in last'.list : \E m \in messages : e = to_dict(m)]_vars

\* The list was served with a reminder in it while another stored reminder,
\* of another user or expired, was left out.
C34_Witness ==
    /\ last.op = "get_messages" /\ last.outcome = "Ok200" /\ last.list # {}
    /\ \E m \in messages :
          /\ to_dict(m) \notin last.list
          /\ \/ m.owner_user_id # last.uid
             \/ m.expiry_time # NoExpiry /\ m.expiry_time <= now * MinutesPerHour

\* The user a reminders request is served for: the user of the cookie's
\* unexpired session, on the deployment with DATABASE_URL set.
Caller(c) == IF backend = "postgres" /\ c # NoToken THEN SessionUsers(c) ELSE {}

\* C35: delete_message removes the reminder with the given id only when it
\* belongs to the caller: a request by an anonymous caller is Unauthorized, a
\* request for an unknown id or for another user's reminder is Not Found,
\* and both leave every reminder in place; a successful delete removes that
\* one reminder and no other.
C35_DeleteOnlyOwnReminder ==
    [][\A c \in CookieInputs, i \in 1..MaxMessages :
        DeleteMessage(c, i)
        => LET own == {m \in messages : m.id = i /\ m.owner_user_id \in Caller(c)}
           IN  /\ Caller(c) = {}
                     => last'.outcome = "Unauthorized401" /\ messages' = messages
               /\ (Caller(c) # {} /\ own = {})
                     => last'.outcome = "NotFound404" /\ messages' = messages
               /\ own # {}
                     => /\ last'.outcome = "Ok200"
                        /\ Cardinality(own) = 1
                        /\ messages' = messages \ own]_vars

\* An authenticated caller asked to delete a reminder that exists and belongs
\* to another user, and was answered Not Found.
C35_Witness ==
    /\ last.op = "delete_message" /\ last.outcome = "NotFound404"
    /\ Cardinality(messages) = MaxMessages
    /\ \A m \in messages : m.owner_user_id # last.uid

\* C36: add_message stores nothing when the caller is anonymous or the text
\* is empty or only whitespace; otherwise it stores exactly one reminder,
\* owned by the caller, with the stripped text, expiring the requested
\* minutes after the current time when the duration is greater than 0 and
\* never when the duration is absent, zero or negative.
C36_AddStoresOneOwnedReminder ==
    [][\A c \in CookieInputs, t \in MessageTexts, d \in MinuteInputs :
        AddMessage(c, t, d)
        => /\ Caller(c) = {}
                 => last'.outcome = "Unauthorized401" /\ messages' = messages
           /\ (Caller(c) # {} /\ Strip(t) = <<>>)
                 => last'.outcome = "BadRequest400" /\ messages' = messages
           /\ (Caller(c) # {} /\ Strip(t) # <<>>)
                 => /\ last'.outcome = "Created201"
                    /\ \E n \in messages' :
                          /\ n \notin messages
                          /\ messages' = messages \cup {n}
                          /\ n.owner_user_id \in Caller(c)
                          /\ n.text = Strip(t)
                          /\ n.id = last'.mid
                          /\ n.expiry_time = IF d > 0 THEN now * MinutesPerHour + d
                                             ELSE NoExpiry]_vars

\* A reminder with an expiry was stored after the clock had advanced.
C36_Witness ==
    /\ last.op = "add_message" /\ last.outcome = "Created201"
    /\ now > 0
    /\ \E n \in messages : n.id = last.mid /\ n.expiry_time = now * MinutesPerHour + 30

\* C37: for every user, email_verified is true exactly when
\* verification_token is null: a user is created unverified with a token,
\* and the flag and the token change only together, and only in verify_email
\* (the store method, or the verify_email route for the user's token).
C37_VerifiedIffTokenCleared ==
    [][/\ \A v \in users' : v.email_verified <=> v.verification_token = NoToken
       /\ \A v \in users' :
             (\A u \in users : u.id # v.id)
             => ~v.email_verified /\ v.verification_token # NoToken
       /\ \A u \in users : \A v \in users' :
             (/\ v.id = u.id
              /\ \/ v.email_verified # u.email_verified
                 \/ v.verification_token # u.verification_token)
             => /\ v.email_verified /\ ~u.email_verified
                /\ v.verification_token = NoToken /\ u.verification_token # NoToken
                /\ DbVerifyEmail(u.id) \/ VerifyEmail(u.verification_token)]_vars

\* A user was verified through the store, its token cleared, while another
\* user is still unverified and holds a token.
C37_Witness ==
    /\ last.op = "db_verify_email" /\ last.changed
    /\ \E u \in users : u.email_verified /\ u.verification_token = NoToken
    /\ \E u \in users : ~u.email_verified /\ u.verification_token # NoToken

\* C38: revocation is scoped.  A logout leaves every session but the
\* cookie's in place and as resolvable as before, and changes no user; a
\* password reset of one user (the handler, and the update_password and
\* delete_user_sessions it calls for that user) leaves the rows and the
\* sessions of every other user as they were.
C38_RevocationScoped ==
    [][/\ \A c \in CookieInputs :
            Logout(c)
            => /\ users' = users
               /\ \A s \in sessions : s.session_token # c => s \in sessions'
               /\ \A t \in Tokens \ {c} :
                     (current_user_id(Db, t).outcome)' = current_user_id(Db, t).outcome
       /\ \A a \in UserIds :
            (\/ DbUpdatePassword(a, PwOther)
             \/ DbDeleteUserSessions(a)
             \/ \E t \in Tokens : ResetPassword(t, PwOther, PwOther) /\ \A h \in Holders(t) : h.id = a)
            => /\ \A b \in users : b.id # a => b \in users'
               /\ \A s \in sessions : s.user_id # a => s \in sessions']_vars

\* A logout has removed the cookie's session while another session still
\* resolves, after the password of one user was replaced and that of
\* another user was not.
C38_Witness ==
    /\ last.op = "logout" /\ last.changed
    /\ \E s \in sessions : current_user_id(Db, s.session_token).outcome = "User"
    /\ \E a \in users : verify_password(PwOther, a.password_hash)
    /\ \E b \in users : verify_password(PwStrong, b.password_hash)

\* C39: the SQLite and the PostgreSQL backend are interchangeable: run on the
\* same tables with the same inputs, create_user and create_session of the
\* two return equal results, raise alike and leave equal user and session
\* tables, also when the operation raises.
C39_BackendsInterchangeable ==
    /\ \A a \in WideAccounts :
          create_user_sqlite(Db, a[1], a[2], hash_password(PwStrong, gensalt(Db)), NoToken)
             = create_user_postgres(Db, a[1], a[2], hash_password(PwStrong, gensalt(Db)), NoToken)
    /\ \A u \in UserIds, t \in Tokens, x \in Times, r \in BOOLEAN :
          create_session_sqlite(Db, u, t, x, r) = create_session_postgres(Db, u, t, x, r)

\* C40: login accepts the user name as well as the email: a login whose
\* identifier is the user name of a verified user, as that user gave it at
\* signup, with the user's password, is answered LoggedIn and creates a
\* session bound to that user.
C40_LoginByUsername ==
    [][\A i \in IdentInputs, p \in LoginPasswords, r \in BOOLEAN :
        (/\ Login(i, p, r)
         /\ \E u \in users : /\ u.username = Strip(i)
                             /\ u.email_verified
                             /\ verify_password(p, u.password_hash))
        => \A u \in users :
              u.username = Strip(i)
              => /\ last'.outcome = "LoggedIn"
                 /\ \E s \in sessions' \ sessions : s.user_id = u.id]_vars

====
